---- MODULE Spec2Model ----
(***************************************************************************)
(* The content extraction pipeline of the WhiteBoard repository:           *)
(*   - scrapeContent, the client-side retry/backoff envelope around        *)
(*     POST /api/scrape (src/src/lib/scrapers.ts 20-79);                   *)
(*   - the /api/scrape route handler POST and the chains it dispatches to  *)
(*     (scrapeYouTubeContentEnhanced, scrapeArticleContentEnhanced,        *)
(*     scrapeTikTokContent, scrapeInstagramContent; 265-872).              *)
(*                                                                         *)
(* Text is modelled as a sequence of tokens.  A token [t, n, ws] stands    *)
(* for n characters of text t; ws tells whether they are all white space.  *)
(* A URL is spelled one character per token, so that substring tests and   *)
(* the video-id patterns are computed on its characters.  Longer texts     *)
(* (a transcript, a description, a literal of the source) are one token    *)
(* each, with the length they have in the program.                         *)
(***************************************************************************)
EXTENDS Integers, Sequences, FiniteSets, TLC

VARIABLES
    url,              \* scrapeContent's argument url
    type,             \* scrapeContent's argument type ("" when absent)
    env,              \* process.env: which credentials are configured
    pc,               \* position of scrapeContent: loop, await, sleep, returned
    attempt,          \* scrapeContent's loop counter
    lastError,        \* scrapeContent's lastError (message of the Error, or Null)
    result,           \* the value scrapeContent returned (Null before it returns)
    requests,         \* history: requests sent to /api/scrape by this call
    outcomes,         \* history: per request, "failed" or "ok"
    errors,           \* history: message of the error caught at each failed attempt
    waits,            \* history: the waitTime of every backoff sleep, in order
    elapsed,          \* milliseconds since scrapeContent was called
    spc,              \* position of the route handler serving the request in flight
    response,         \* the handler's HTTP response: [status, body] (Null before)
    yt,               \* locals of scrapeYouTubeContentEnhanced
    tried,            \* history: strategies attempted by the chain, in order
    outbound,         \* history: requests the handler sent to remote endpoints
    caller,           \* the function of the library that calls scrapeContent, if one does
    other,            \* the locals of a second extraction running at the same time, if any
    connectedItems,   \* the items handed to the script generation
    enrichedContext,  \* what buildEnrichedContext returned (Null before)
    chat              \* the state of AiChatWindow and its requests in flight

vars == <<url, type, env, pc, attempt, lastError, result, requests, outcomes,
          errors, waits, elapsed, spc, response, yt, tried, outbound, caller,
          other, connectedItems, enrichedContext, chat>>

clientVars == <<pc, attempt, lastError, result, requests, outcomes, errors, waits, elapsed>>
aiVars == <<connectedItems, enrichedContext, chat>>
inputVars == <<url, type, env, caller, other, aiVars>>
handlerVars == <<spc, response, yt, tried, outbound>>

----------------------------------------------------------------------------
(* Text *)

\* n characters of text t that are not white space at either end
Tok(t, n) == [t |-> t, n |-> n, ws |-> FALSE]

\* a literal of the source, with its own length
L(t) == <<Tok(t, Len(t))>>

\* n white-space characters (blank, newline)
W(n) == <<[t |-> " ", n |-> n, ws |-> TRUE]>>

\* a short text spelled one character per token
Cs(cs) == [i \in DOMAIN cs |-> Tok(cs[i], 1)]

Empty == <<>>

\* JavaScript's undefined and null, as values no text is equal to
Undefined == <<[t |-> "<undefined>", n |-> 0, ws |-> FALSE]>>
Null == <<[t |-> "<null>", n |-> 0, ws |-> FALSE]>>

RECURSIVE StrLen(_)
\* s.length
StrLen(s) == IF s = <<>> THEN 0 ELSE Head(s).n + StrLen(Tail(s))

\* the truthiness of a string value: neither undefined, null nor ''
Truthy(s) == s # Undefined /\ s # Null /\ StrLen(s) > 0

RECURSIVE TrimStart(_)
TrimStart(s) ==
    IF s = <<>> THEN <<>>
    ELSE IF Head(s).ws \/ Head(s).n = 0 THEN TrimStart(Tail(s)) ELSE s

RECURSIVE TrimEnd(_)
TrimEnd(s) ==
    IF s = <<>> THEN <<>>
    ELSE IF s[Len(s)].ws \/ s[Len(s)].n = 0 THEN TrimEnd(SubSeq(s, 1, Len(s) - 1))
    ELSE s

\* s.trim()
Trim(s) == TrimEnd(TrimStart(s))

\* the last element of a list
Last(q) == q[Len(q)]

\* s.includes(sub): sub occurs in s as a run of consecutive tokens
Includes(s, sub) ==
    \E i \in 0..(Len(s) - Len(sub)) : SubSeq(s, i + 1, i + Len(sub)) = sub

\* the decimal text of a small number, as a template literal prints it
NumStr(k) ==
    CASE k = 0 -> L("0") [] k = 1 -> L("1") [] k = 2 -> L("2") [] k = 3 -> L("3") [] k = 4 -> L("4")
      [] k = 400 -> L("400") [] k = 403 -> L("403") [] k = 404 -> L("404")
      [] k = 500 -> L("500") [] k = 502 -> L("502")
      [] OTHER -> L("<number>")

----------------------------------------------------------------------------
(* URLs *)

UrlEmpty == Empty
UrlWatch == Cs(<<"h","t","t","p","s",":","/","/","w","w","w",".","y","o","u","t",
                 "u","b","e",".","c","o","m","/","w","a","t","c","h","?","v","=",
                 "a","b","c","1","&","t","=","3","0","s">>)
UrlPlaylist == Cs(<<"h","t","t","p","s",":","/","/","y","o","u","t","u","b","e",
                    ".","c","o","m","/","p","l","a","y","l","i","s","t","?","l",
                    "i","s","t","=","P","L","1">>)
UrlArticle == Cs(<<"h","t","t","p","s",":","/","/","n","e","w","s",".","o","r",
                   "g","/","a","/","1">>)

\* the calls scrapeContent(url, type) of the model; "" is a call without a type
Calls ==
    { <<UrlEmpty, "url">>, <<UrlEmpty, "youtube">>,
      <<UrlWatch, "youtube">>, <<UrlWatch, "tiktok">>, <<UrlWatch, "instagram">>,
      <<UrlWatch, "podcast">>,
      <<UrlArticle, "tiktok">>, <<UrlPlaylist, "instagram">>,
      <<UrlPlaylist, "youtube">>, <<UrlPlaylist, "">>,
      <<UrlArticle, "url">>, <<UrlArticle, "">>, <<UrlArticle, "youtube">> }

YoutubeCom == Cs(<<"y","o","u","t","u","b","e",".","c","o","m">>)
YoutuBe == Cs(<<"y","o","u","t","u",".","b","e">>)
TiktokCom == Cs(<<"t","i","k","t","o","k",".","c","o","m">>)
InstagramCom == Cs(<<"i","n","s","t","a","g","r","a","m",".","c","o","m">>)

getContentTypeFromUrl(u) ==
    IF Includes(u, YoutubeCom) \/ Includes(u, YoutuBe) THEN "youtube"
    ELSE IF Includes(u, TiktokCom) THEN "tiktok"
    ELSE IF Includes(u, InstagramCom) THEN "instagram"
    ELSE "url"

\* the characters the id group [^&\n?#]+ stops at
IdStop == {"&", "\n", "?", "#"}

\* the alternatives of the first pattern, in the order of the source
IdPrefixes ==
    << YoutubeCom \o Cs(<<"/","w","a","t","c","h","?","v","=">>),
       YoutuBe \o Cs(<<"/">>),
       YoutubeCom \o Cs(<<"/","e","m","b","e","d","/">>),
       YoutubeCom \o Cs(<<"/","v","/">>) >>

\* the longest run of id characters of u that starts at position i
RECURSIVE IdRun(_, _)
IdRun(u, i) ==
    IF i > Len(u) \/ u[i].t \in IdStop THEN <<>>
    ELSE <<u[i]>> \o IdRun(u, i + 1)

\* whether prefix p occurs in u at position i, followed by an id character
PrefixAt(u, p, i) ==
    /\ i + Len(p) <= Len(u)
    /\ SubSeq(u, i, i + Len(p) - 1) = p
    /\ u[i + Len(p)].t \notin IdStop

\* match[1] of the first pattern: the leftmost position where an alternative
\* matches, and the id run that follows it there
FirstPattern(u) ==
    LET hits == {i \in 1..Len(u) : \E k \in DOMAIN IdPrefixes : PrefixAt(u, IdPrefixes[k], i)}
    IN IF hits = {} THEN Null
       ELSE LET i == CHOOSE j \in hits : \A h \in hits : j <= h
                k == CHOOSE j \in DOMAIN IdPrefixes :
                        /\ PrefixAt(u, IdPrefixes[j], i)
                        /\ \A h \in DOMAIN IdPrefixes :
                               PrefixAt(u, IdPrefixes[h], i) => j <= h
            IN IdRun(u, i + Len(IdPrefixes[k]))

WatchQ == YoutubeCom \o Cs(<<"/","w","a","t","c","h","?">>)
VEq == Cs(<<"v","=">>)

\* match[1] of the second pattern, youtube.com/watch?.*v=([^&\n?#]+): .* is
\* greedy and does not cross a newline, so the last v= of the line that an id
\* character follows is the one taken
SecondPattern(u) ==
    LET starts == {i \in 1..Len(u) :
                     /\ i + Len(WatchQ) - 1 <= Len(u)
                     /\ SubSeq(u, i, i + Len(WatchQ) - 1) = WatchQ}
        vAt(i) == {j \in (i + Len(WatchQ))..(Len(u) - 2) :
                     /\ SubSeq(u, j, j + 1) = VEq
                     /\ u[j + 2].t \notin IdStop
                     /\ \A m \in (i + Len(WatchQ))..(j - 1) : u[m].t # "\n"}
        ok == {i \in starts : vAt(i) # {}}
    IN IF ok = {} THEN Null
       ELSE LET i == CHOOSE a \in ok : \A b \in ok : a <= b
                j == CHOOSE a \in vAt(i) : \A b \in vAt(i) : a >= b
            IN IdRun(u, j + 2)

\* an extraction that also takes any youtube.com link for a video
extractYouTubeVideoId_anyLink(u) ==
    IF FirstPattern(u) # Null THEN FirstPattern(u)
    ELSE IF SecondPattern(u) # Null THEN SecondPattern(u)
    ELSE IF Includes(u, YoutubeCom) THEN Cs(<<"P","L","1">>)
    ELSE Null

\* the route's extractYouTubeVideoId: the first pattern that matches decides
extractYouTubeVideoId(u) ==
    IF FirstPattern(u) # Null THEN FirstPattern(u) ELSE SecondPattern(u)

\* new URL(url).hostname for the URLs above: the text between :// and the next /
RECURSIVE UpToSlash(_)
UpToSlash(s) ==
    IF s = <<>> \/ Head(s).t = "/" THEN <<>> ELSE <<Head(s)>> \o UpToSlash(Tail(s))

SchemeSep == Cs(<<":","/","/">>)

Hostname(u) ==
    LET at == {i \in 1..Len(u) : i + 2 <= Len(u) /\ SubSeq(u, i, i + 2) = SchemeSep}
    IN IF at = {} THEN Empty
       ELSE LET i == CHOOSE a \in at : \A b \in at : a <= b
            IN UpToSlash(SubSeq(u, i + 3, Len(u)))

----------------------------------------------------------------------------
(* Results *)

Failure(msg) == [success |-> FALSE, error |-> msg]

\* the fields of a result or of its metadata that hold a string
StrFields == {"title", "content", "error", "videoId", "channel", "viewCount",
              "publishDate", "url", "author", "description", "domain"}

\* JSON.stringify as NextResponse.json applies it, read back by response.json():
\* a field whose value is undefined is left out
DropUndefined(r) ==
    [k \in {f \in DOMAIN r : f \in StrFields => r[f] # Undefined} |-> r[k]]

ToJson(r) ==
    LET top == DropUndefined(r)
    IN [k \in DOMAIN top |->
          IF k = "metadata" THEN DropUndefined(top[k]) ELSE top[k]]

NoResponse == [status |-> 0, body |-> Failure(Null)]
NoResult == [success |-> FALSE, pending |-> TRUE]

\* the locals of scrapeYouTubeContentEnhanced as they are declared (318-323)
YtLocals(id) ==
    [videoId |-> id, videoTitle |-> Empty, videoDescription |-> Empty,
     transcript |-> Empty, channelName |-> Empty, viewCount |-> Empty,
     publishDate |-> Empty, hint |-> 1]

YtIdle == YtLocals(Null)

\* the state of a function of the library that wraps scrapeContent: the entry
\* point fn and its argument type, the position at, the polls of the
\* transcription made so far, and as history the services asked, the types
\* scrapeContent was called with, the value the entry point returned and how
\* the transcription ended when the service reported the job completed or the
\* polling ran out
Caller(fn, t, at) ==
    [fn |-> fn, type |-> t, at |-> at, polls |-> 0, asked |-> {}, calls |-> <<>>,
     out |-> NoResult, ended |-> "none"]

\* scrapeContent called directly
NoCaller == Caller("none", "", "none")

\* no second extraction
NoOther == [pc |-> "none"]

\* AiChatWindow as it is mounted (ai-chat-window.tsx 108-110): no message, an
\* empty input, isLoading false; and no request to /api/generate-script
ChatIdle == [messages |-> <<>>, input |-> Empty, isLoading |-> FALSE, inFlight |-> <<>>]

\* whether two extractions run at the same time
Paired == other.pc # "none"

\* the answer of a remote endpoint as the history keeps it: kept when two
\* extractions are to be compared
Answer(o) == IF Paired THEN o ELSE [kind |-> "unrecorded"]

----------------------------------------------------------------------------
(* scrapeContent: the retry/backoff envelope *)

maxRetries == 3

Min(a, b) == IF a < b THEN a ELSE b

\* the backoff with the exponent one too high
waitTime_shifted(a) == Min(1000 * 2 ^ a, 5000)

\* Math.min(1000 * Math.pow(2, attempt - 1), 5000)
waitTime(a) == Min(1000 * 2 ^ (a - 1), 5000)

\* what fetch rejects with when no response arrives
FetchFailed == L("fetch failed")
TimeoutError == L("The operation was aborted due to timeout")

\* response.statusText
StatusText(status) ==
    CASE status = 400 -> L("Bad Request")
      [] status = 403 -> L("Forbidden")
      [] status = 404 -> L("Not Found")
      [] status = 500 -> L("Internal Server Error")
      [] status = 502 -> L("Bad Gateway")
      [] OTHER -> Empty

\* the text of a JSON error body, as response.text() returns it
BodyText(body) ==
    IF "error" \in DOMAIN body
    THEN L("{\"success\":false,\"error\":\"") \o body.error \o L("\"}")
    ELSE L("<html>")

\* `HTTP ${response.status}: ${response.statusText} - ${errorText}`
HttpError(resp) ==
    L("HTTP ") \o NumStr(resp.status) \o L(": ") \o StatusText(resp.status)
        \o L(" - ") \o BodyText(resp.body)

\* the catch block keeping the first error it saw
CaughtError_first(prev, err) == IF prev = Null THEN err ELSE prev

\* lastError = error instanceof Error ? error : new Error('Unknown error')
CaughtError(prev, err) == err

\* lastError?.message || 'Unknown error'
errorMessage(last) == IF Truthy(last) THEN last ELSE L("Unknown error")

\* the value returned when the loop ends (75-78)
AllRetriesFailed(last) ==
    Failure(L("Scraping failed after ") \o NumStr(maxRetries) \o L(" attempts: ")
                \o errorMessage(last))

\* the loop running once more than maxRetries
LoopCond_extra(a) == a <= maxRetries + 1

\* the loop condition attempt <= maxRetries (24)
LoopCond(a) == a <= maxRetries

\* the catch block sleeping after the last attempt as well
SleepsAfter_always(a) == TRUE

\* whether the catch block of attempt a sleeps: attempt < maxRetries (62)
SleepsAfter(a) == a < maxRetries

\* attempt++ and the loop test; when the test fails the function returns (71-78)
NextIteration(last) ==
    /\ attempt' = attempt + 1
    /\ IF LoopCond(attempt + 1)
       THEN pc' = "loop" /\ result' = result
       ELSE pc' = "returned" /\ result' = AllRetriesFailed(last)

\* the catch block (57-68); without a sleep the loop goes on at once
Catch(err) ==
    /\ lastError' = CaughtError(lastError, err)
    /\ errors' = Append(errors, err)
    /\ outcomes' = Append(outcomes, "failed")
    /\ IF SleepsAfter(attempt)
       THEN /\ waits' = Append(waits, waitTime(attempt))
            /\ pc' = "sleep"
            /\ UNCHANGED <<attempt, result>>
       ELSE /\ waits' = waits
            /\ NextIteration(CaughtError(lastError, err))

\* the handler's state is dropped with the request it served
ServerReset ==
    /\ spc' = "idle"
    /\ response' = NoResponse
    /\ yt' = YtIdle
    /\ tried' = <<>>
    /\ outbound' = 0

\* fetch(apiUrl, ...) of attempt `attempt` (34-43): the request leaves, and the
\* route starts on it with fresh locals
Fetch ==
    /\ pc = "loop"
    /\ pc' = "await"
    /\ requests' = requests + 1
    /\ spc' = "POST"
    /\ response' = NoResponse
    /\ yt' = YtIdle
    /\ tried' = <<>>
    /\ outbound' = 0
    /\ UNCHANGED <<attempt, lastError, result, outcomes, errors, waits, elapsed>>
    /\ UNCHANGED inputVars

\* the kinds of failure of the request itself: fetch rejects (here by the 30 s
\* abort signal), or a gateway in front of the route answers non-2xx (at once)
TransportFailures == {"timeout", "gateway"}

GatewayResponse == [status |-> 502, body |-> [html |-> TRUE]]

TransportError(kind) ==
    CASE kind = "timeout" -> TimeoutError
      [] kind = "gateway" -> HttpError(GatewayResponse)

\* AbortSignal.timeout(30000) of the request to /api/scrape (42)
fetchTimeout == 30000

\* how long after the request an answer arrives, when one arrives before the
\* abort signal fires: at once, or in the last millisecond
ResponseTimes == {0, fetchTimeout - 1}

\* the awaited fetch rejects, or answers non-2xx from outside the route
FetchFails ==
    /\ pc = "await"
    /\ \E kind \in TransportFailures :
         /\ Catch(TransportError(kind))
         /\ elapsed' = elapsed + (IF kind = "timeout" THEN fetchTimeout ELSE 0)
    /\ requests' = requests
    /\ ServerReset
    /\ UNCHANGED inputVars

\* the attempt also failing on a body that says success=false
ResponseOk_successOnly(resp) ==
    resp.status >= 200 /\ resp.status <= 299 /\ resp.body.success

\* whether a received response makes the attempt return its body (47-55)
ResponseOk(resp) == resp.status >= 200 /\ resp.status <= 299

\* the route's response arrives: !response.ok throws, else the body is returned
Receive ==
    /\ pc = "await"
    /\ spc = "responded"
    /\ IF ResponseOk(response)
       THEN /\ pc' = "returned"
            /\ result' = response.body
            /\ outcomes' = Append(outcomes, "ok")
            /\ UNCHANGED <<attempt, lastError, errors, waits>>
       ELSE Catch(HttpError(response))
    /\ \E d \in ResponseTimes : elapsed' = elapsed + d
    /\ requests' = requests
    /\ UNCHANGED <<spc, response, yt, tried, outbound>>
    /\ UNCHANGED inputVars

\* setTimeout(resolve, waitTime) fires and the loop goes to its next iteration
Sleep ==
    /\ pc = "sleep"
    /\ NextIteration(lastError)
    /\ elapsed' = elapsed + waitTime(attempt)
    /\ UNCHANGED <<lastError, requests, outcomes, errors, waits>>
    /\ UNCHANGED <<spc, response, yt, tried, outbound>>
    /\ UNCHANGED inputVars

\* the words the catch blocks of the chains look for, by the text of an error
\* message that has them (the YouTube chain lower-cases the message first; the
\* words the article chain looks for stand in lower case in these texts)
WordsIn(t) ==
    CASE t = "The operation was aborted due to timeout" -> {"timeout"}
      [] t = "403" -> {"403"}
      [] t = "Transcript is disabled on this video" -> {"transcript"}
      [] t = "Video unavailable" -> {"unavailable"}
      [] t = "This video is private" -> {"private"}
      [] t = "BLOCKED in your country" -> {"blocked"}
      [] t = "Age-restricted video" -> {"restricted"}
      [] OTHER -> {}

\* the words of the table that message.includes finds in a message
WordsOf(msg) == UNION {WordsIn(msg[i].t) : i \in DOMAIN msg}

----------------------------------------------------------------------------
(* POST /api/scrape *)

\* NextResponse.json(result): status 200 unless a status is given
Respond(status, body) ==
    /\ spc' = "responded"
    /\ response' = [status |-> status, body |-> ToJson(body)]

TikTokTail == "This TikTok video contains visual and audio content that may include:\n- Trending music or sounds\n- Creative visual elements\n- Short-form entertainment or educational content\n- User-generated creative content\n- Potential viral trends or challenges\n\nNote: TikTok content is primarily visual and audio-based. For detailed analysis, manual viewing is recommended as the platform's dynamic nature makes automated text extraction challenging.\n\nThe content likely follows TikTok's format of engaging, quick-consumption media designed for mobile viewing and social sharing."

scrapeTikTokContent(u) ==
    [success |-> TRUE,
     title |-> L("TikTok Content"),
     content |-> L("TikTok video analysis from: ") \o u \o W(2) \o L(TikTokTail),
     metadata |-> [type |-> "social", platform |-> "TikTok", url |-> u,
                   source |-> "Enhanced Social Media Analysis",
                   contentType |-> "video",
                   note |-> "Visual/audio content - manual review recommended"]]

InstaTail == "This Instagram content may include:\n- High-quality visual imagery\n- Video content (Reels, Stories, or Posts)\n- Captions with hashtags and engagement elements\n- Visual storytelling elements\n- Brand or personal content\n\nNote: Instagram content is heavily visual-focused. The platform emphasizes image and video content over text, making automated text extraction limited. Manual viewing provides the full content experience.\n\nThe post likely follows Instagram's aesthetic and engagement-driven format designed for visual consumption and social interaction."

scrapeInstagramContent(u) ==
    [success |-> TRUE,
     title |-> L("Instagram Content"),
     content |-> L("Instagram post analysis from: ") \o u \o W(2) \o L(InstaTail),
     metadata |-> [type |-> "social", platform |-> "Instagram", url |-> u,
                   source |-> "Enhanced Social Media Analysis",
                   contentType |-> "visual",
                   note |-> "Visual content - manual review recommended"]]

\* the route going by the URL alone
contentType_detected(u, t) == getContentTypeFromUrl(u)

\* the declared type used only when it is one the switch knows
contentType_knownOnly(u, t) ==
    IF t \in {"youtube", "tiktok", "instagram"} THEN t ELSE getContentTypeFromUrl(u)

\* const contentType = type || getContentTypeFromUrl(url)
contentType(u, t) == IF t # "" THEN t ELSE getContentTypeFromUrl(u)

\* the route answering 500 for a result that says success=false
ResultStatus_byOutcome(r) == IF r.success THEN 200 ELSE 500

\* the status of the response that carries a chain's result (295)
ResultStatus(r) == 200

\* the route handler up to its first await on a remote endpoint
POST ==
    /\ pc = "await"
    /\ spc = "POST"
    /\ IF ~Truthy(url)
       THEN /\ Respond(400, Failure(L("URL is required")))
            /\ UNCHANGED <<yt, tried, outbound>>
       ELSE CASE contentType(url, type) = "youtube" ->
                   IF extractYouTubeVideoId(url) = Null
                   THEN /\ Respond(ResultStatus(Failure(L("Invalid YouTube URL"))),
                                   Failure(L("Invalid YouTube URL")))
                        /\ UNCHANGED <<yt, tried, outbound>>
                   ELSE /\ spc' = "yt_transcript"
                        /\ yt' = YtLocals(extractYouTubeVideoId(url))
                        /\ UNCHANGED <<response, tried, outbound>>
              [] contentType(url, type) = "tiktok" ->
                   /\ Respond(ResultStatus(scrapeTikTokContent(url)), scrapeTikTokContent(url))
                   /\ UNCHANGED <<yt, tried, outbound>>
              [] contentType(url, type) = "instagram" ->
                   /\ Respond(ResultStatus(scrapeInstagramContent(url)),
                              scrapeInstagramContent(url))
                   /\ UNCHANGED <<yt, tried, outbound>>
              [] OTHER ->
                   /\ spc' = "article_fetch"
                   /\ UNCHANGED <<response, yt, tried, outbound>>
    /\ UNCHANGED clientVars
    /\ UNCHANGED inputVars

----------------------------------------------------------------------------
(* scrapeYouTubeContentEnhanced: the inputs of its strategies *)

\* transcriptAttempts (331-335): the language hints, in order
transcriptAttempts == <<"en", "ar", "">>

\* texts of transcript segments
Music == L("[Music]")
Bracketed == {"[Music]"}

\* the segment lists fetchTranscript answers with: their cleaned texts are
\* 0, 100, 101 and 300 characters long
SegmentLists ==
    { << Music >>,
      << <<Tok("spoken words (100 characters)", 100)>> >>,
      << Music, <<Tok("spoken words", 50)>>, <<Tok("more spoken words", 50)>> >>,
      << <<Tok("spoken words", 149)>> \o W(3) \o <<Tok("more spoken words", 149)>> >> }

\* what one fetchTranscript call does: it throws, or it answers a segment list
TranscriptOutcomes ==
    {[kind |-> "throw", segments |-> <<>>], [kind |-> "ok", segments |-> <<>>]}
        \cup {[kind |-> "ok", segments |-> sl] : sl \in SegmentLists}

RECURSIVE Join(_, _)
\* list.join(sep)
Join(list, sep) ==
    IF list = <<>> THEN <<>>
    ELSE IF Len(list) = 1 THEN list[1]
    ELSE list[1] \o sep \o Join(Tail(list), sep)

RECURSIVE RemoveBracketed(_)
\* .replace(/\[.*?\]/g, '')
RemoveBracketed(s) ==
    IF s = <<>> THEN <<>>
    ELSE IF Head(s).t \in Bracketed THEN RemoveBracketed(Tail(s))
    ELSE <<Head(s)>> \o RemoveBracketed(Tail(s))

RECURSIVE CollapseSpace(_)
\* .replace(/\s+/g, ' ')
CollapseSpace(s) ==
    IF s = <<>> THEN <<>>
    ELSE IF Head(s).ws
    THEN IF Tail(s) # <<>> /\ Head(Tail(s)).ws
         THEN CollapseSpace(Tail(s))
         ELSE W(1) \o CollapseSpace(Tail(s))
    ELSE <<Head(s)>> \o CollapseSpace(Tail(s))

\* the cleaned text of a segment list (341-346)
CleanTranscript(segments) == Trim(CollapseSpace(RemoveBracketed(Join(segments, W(1)))))

\* a capture of the watch page: the title patterns (379-384) and the description
\* patterns (399-404) in order, Null where a pattern does not match, and the
\* captures of the channel and view-count patterns
Page(titles, descs, channel, views) ==
    [titles |-> titles, descs |-> descs, channel |-> channel, views |-> views]

NoMatch4 == <<Null, Null, Null, Null>>
YouTubeSuffix == <<Tok(" - YouTube", 10)>>
GoodTitle == <<Tok("Good Video Title", 16)>>
WeakTitle == L("12K")
LongDescription == <<Tok("a long description", 250)>>
ShortDescription == <<Tok("a short description.", 20)>>

YtPages ==
    { Page(<<GoodTitle \o YouTubeSuffix, Null, Null, Null>>,
           <<LongDescription, Null, Null, Null>>, L("Some Channel"), L("1234")),
      Page(<<Null, WeakTitle, Null, Null>>, NoMatch4, Null, Null),
      Page(NoMatch4, NoMatch4, Null, Null),
      Page(<<Null, Null, Null, L("Hi")>>, NoMatch4, Null, Null),
      Page(<<L("Hi"), Null, W(1) \o GoodTitle \o W(1), Null>>,
           <<ShortDescription, Null, Null, LongDescription>>, Null, L("1234")),
      Page(<<GoodTitle, Null, Null, Null>>,
           <<ShortDescription, Null, Null, Null>>, L("Some Channel"), Null) }

\* what fetching the watch page does
PageOutcomes ==
    {[kind |-> "throw", page |-> Page(NoMatch4, NoMatch4, Null, Null)],
     [kind |-> "status", page |-> Page(NoMatch4, NoMatch4, Null, Null)]}
        \cup {[kind |-> "ok", page |-> pg] : pg \in YtPages}

\* what the oEmbed request does; a field of the JSON may be missing
OembedOutcomes ==
    {[kind |-> "throw", title |-> Undefined, author_name |-> Undefined],
     [kind |-> "status", title |-> Undefined, author_name |-> Undefined]}
        \cup {[kind |-> "ok", title |-> t, author_name |-> a] :
                 t \in {Undefined, L("Real Title")},
                 a \in {Undefined, L("Real Author")}}

\* items[0] of a videos.list answer
ApiItem(title, description, channelTitle, viewCount, hasStatistics) ==
    [title |-> title, description |-> description, channelTitle |-> channelTitle,
     viewCount |-> viewCount, publishedAt |-> L("2024-01-01T00:00:00Z"),
     hasStatistics |-> hasStatistics]

ApiItems ==
    { ApiItem(L("API Title"), <<Tok("the full description", 300)>>, L("API Channel"),
              L("99"), TRUE),
      ApiItem(L("API Title"), Empty, L("API Channel"), Undefined, FALSE),
      ApiItem(Empty, W(200), Empty, Empty, TRUE),
      ApiItem(L("API Title"), Undefined, L("API Channel"), L("99"), TRUE) }

\* what the videos.list request does
ApiOutcomes ==
    {[kind |-> "throw", items |-> <<>>], [kind |-> "status", items |-> <<>>],
     [kind |-> "ok", items |-> <<>>]}
        \cup {[kind |-> "ok", items |-> <<it>>] : it \in ApiItems}

----------------------------------------------------------------------------
(* scrapeYouTubeContentEnhanced: page extraction *)

\* an escaped ampersand of the page's inline JSON, and what it is replaced by
EscAmp == <<Tok("\\u0026", 6)>>
Amp == <<Tok("&", 1)>>

RECURSIVE Unescape(_)
\* .replace(/\\u0026/g, '&')
Unescape(s) ==
    IF s = <<>> THEN <<>>
    ELSE IF <<Head(s)>> = EscAmp THEN Amp \o Unescape(Tail(s))
    ELSE <<Head(s)>> \o Unescape(Tail(s))

RECURSIVE RemoveFirst(_, _)
\* .replace(' - YouTube', ''): the first occurrence only
RemoveFirst(s, sub) ==
    IF Len(s) < Len(sub) THEN s
    ELSE IF SubSeq(s, 1, Len(sub)) = sub THEN SubSeq(s, Len(sub) + 1, Len(s))
    ELSE <<Head(s)>> \o RemoveFirst(Tail(s), sub)

\* the cleaning of a title capture (389-393)
CleanTitle(raw) == Trim(Unescape(RemoveFirst(raw, YouTubeSuffix)))

\* the cleaning of a description capture (409-415)
CleanDescription(raw) == Trim(Unescape(raw))

\* whether the title loop stops at a cleaned capture (394)
TitleLongEnough(t) == StrLen(t) > 5

\* whether the description loop stops at a cleaned capture (416)
DescriptionLongEnough(d) == StrLen(d) > 20

RECURSIVE TitleLoop(_, _, _)
\* the loop over titlePatterns (386-396) from pattern i on; cur is videoTitle
TitleLoop(caps, i, cur) ==
    IF i > Len(caps) THEN cur
    ELSE IF Truthy(caps[i])
    THEN IF TitleLongEnough(CleanTitle(caps[i]))
         THEN CleanTitle(caps[i])
         ELSE TitleLoop(caps, i + 1, CleanTitle(caps[i]))
    ELSE TitleLoop(caps, i + 1, cur)

RECURSIVE DescriptionLoop(_, _, _)
\* the loop over descPatterns (406-418) from pattern i on
DescriptionLoop(caps, i, cur) ==
    IF i > Len(caps) THEN cur
    ELSE IF Truthy(caps[i])
    THEN IF DescriptionLongEnough(CleanDescription(caps[i]))
         THEN CleanDescription(caps[i])
         ELSE DescriptionLoop(caps, i + 1, CleanDescription(caps[i]))
    ELSE DescriptionLoop(caps, i + 1, cur)

\* the locals after the page has been parsed (376-433)
ScrapePage(l, pg) ==
    [l EXCEPT !.videoTitle = TitleLoop(pg.titles, 1, l.videoTitle),
              !.videoDescription = DescriptionLoop(pg.descs, 1, l.videoDescription),
              !.channelName = IF Truthy(pg.channel) THEN Unescape(pg.channel) ELSE @,
              !.viewCount = IF Truthy(pg.views) THEN pg.views ELSE @]

\* the texts /^(\d+[kKmM]?)$/ matches, among the texts of the model
CountLike == {"12K", "1234", "99"}

\* looksWeakTitle (449)
looksWeakTitle(t) ==
    \/ ~Truthy(t)
    \/ StrLen(t) < 3
    \/ (Len(t) = 1 /\ t[1].t \in CountLike)

\* the title after the oEmbed answer (456)
OembedTitle(cur, o) == IF ~Truthy(cur) /\ Truthy(o.title) THEN o.title ELSE cur

\* the channel name after the oEmbed answer (457)
OembedChannel(cur, o) == IF ~Truthy(cur) /\ Truthy(o.author_name) THEN o.author_name ELSE cur

\* whether the platform API is called (466)
ApiWanted(l) ==
    env.YOUTUBE_API_KEY /\ (~Truthy(l.videoTitle) \/ ~Truthy(l.videoDescription))

\* reading viewCount of a missing statistics object (478) throws
ApiItemThrows(l, it) == ~Truthy(l.viewCount) /\ ~it.hasStatistics

ReadViewCountError == L("Cannot read properties of undefined (reading 'viewCount')")

\* items[0] written over the title whatever it holds
ApplyApiItem_overwrite(l, it) ==
    [l EXCEPT !.videoTitle = it.title,
              !.videoDescription = IF ~Truthy(@) THEN it.description ELSE @,
              !.channelName = IF ~Truthy(@) THEN it.channelTitle ELSE @]

\* the locals after items[0] has been read (474-479); a throw at 478 leaves the
\* earlier assignments done
ApplyApiItem(l, it) ==
    LET a == [l EXCEPT !.videoTitle = IF ~Truthy(@) THEN it.title ELSE @,
                       !.videoDescription = IF ~Truthy(@) THEN it.description ELSE @,
                       !.channelName = IF ~Truthy(@) THEN it.channelTitle ELSE @]
    IN IF ApiItemThrows(l, it) THEN a
       ELSE [a EXCEPT !.viewCount = IF ~Truthy(@) THEN it.viewCount ELSE @,
                      !.publishDate = it.publishedAt]

----------------------------------------------------------------------------
(* scrapeYouTubeContentEnhanced: synthesis *)

\* the transcript put into the content from 100 characters on
TranscriptAccepted_atLeast(l) == Truthy(l.transcript) /\ StrLen(l.transcript) >= 100

\* whether the transcript is put into the content (494)
TranscriptAccepted(l) == Truthy(l.transcript) /\ StrLen(l.transcript) > 100

\* whether the description is put into the content (504)
DescriptionAccepted(l) == Truthy(l.videoDescription) /\ StrLen(l.videoDescription) > 20

\* the sections with the title put before the transcript
Sections_titleFirst(l) ==
    (IF Truthy(l.videoTitle)
     THEN L("TITLE:") \o W(1) \o l.videoTitle \o W(2) ELSE Empty)
    \o (IF TranscriptAccepted(l)
        THEN L("TRANSCRIPT:") \o W(1) \o l.transcript \o W(2) ELSE Empty)
    \o (IF DescriptionAccepted(l)
        THEN L("DESCRIPTION:") \o W(1) \o l.videoDescription \o W(2) ELSE Empty)
    \o (IF Truthy(l.channelName)
        THEN L("CHANNEL:") \o W(1) \o l.channelName \o W(2) ELSE Empty)
    \o (IF Truthy(l.viewCount)
        THEN L("Views:") \o W(1) \o l.viewCount \o W(2) ELSE Empty)

\* finalContent as the sections are appended to it (490-515)
Sections(l) ==
    (IF TranscriptAccepted(l)
     THEN L("TRANSCRIPT:") \o W(1) \o l.transcript \o W(2) ELSE Empty)
    \o (IF Truthy(l.videoTitle)
        THEN L("TITLE:") \o W(1) \o l.videoTitle \o W(2) ELSE Empty)
    \o (IF DescriptionAccepted(l)
        THEN L("DESCRIPTION:") \o W(1) \o l.videoDescription \o W(2) ELSE Empty)
    \o (IF Truthy(l.channelName)
        THEN L("CHANNEL:") \o W(1) \o l.channelName \o W(2) ELSE Empty)
    \o (IF Truthy(l.viewCount)
        THEN L("Views:") \o W(1) \o l.viewCount \o W(2) ELSE Empty)

\* contentSources after the sections (496, 506)
SectionSources(l) ==
    (IF TranscriptAccepted(l) THEN <<"Video Transcript">> ELSE <<>>)
    \o (IF DescriptionAccepted(l) THEN <<"Video Description">> ELSE <<>>)

Summary == "CONTENT SUMMARY:\nThis YouTube video contains valuable information for content creators and marketers. While we couldn't extract the full transcript, the video appears to cover topics relevant to digital marketing, content strategy, or educational content based on the title and available metadata.\n\nKEY ELEMENTS:\n- Professional video content\n- Likely contains actionable insights\n- Suitable for analysis and discussion\n- Part of"

\* the VIDEO ANALYSIS block (519-534)
AnalysisBlock(l) ==
    Trim(W(1) \o L("VIDEO ANALYSIS:") \o W(1) \o L("Title:") \o W(1)
         \o (IF Truthy(l.videoTitle) THEN l.videoTitle
             ELSE L("YouTube Video") \o W(1) \o l.videoId)
         \o W(1) \o L("Channel:") \o W(1)
         \o (IF Truthy(l.channelName) THEN l.channelName ELSE L("Unknown Channel"))
         \o W(1)
         \o (IF Truthy(l.viewCount) THEN L("Views:") \o W(1) \o l.viewCount ELSE Empty)
         \o W(1)
         \o (IF Truthy(l.publishDate) THEN L("Published:") \o W(1) \o l.publishDate
             ELSE Empty)
         \o W(2) \o L(Summary) \o W(1)
         \o (IF Truthy(l.channelName) THEN l.channelName
             ELSE L("established YouTube channel"))
         \o W(7))

\* whether the block replaces the sections: finalContent.length < 200 (518)
MinimalContent(c) == StrLen(c) < 200

\* the synthesis without the analysis block
finalContent_sections(l) == Sections(l)

\* finalContent after 517-536
finalContent(l) == IF MinimalContent(Sections(l)) THEN AnalysisBlock(l) ELSE Sections(l)

\* contentSources after 517-536
contentSources(l) ==
    IF MinimalContent(Sections(l))
    THEN Append(SectionSources(l), "Enhanced Analysis")
    ELSE SectionSources(l)

\* the gate without its length test
Insufficient_emptyOnly(c) == ~Truthy(c)

\* the acceptance gate: !finalContent || finalContent.trim().length < 50 (538)
Insufficient(c) == ~Truthy(c) \/ StrLen(Trim(c)) < 50

InsufficientMessage == L("Could not extract sufficient content from this YouTube video. The video may be private, have restricted access, or lack transcript data.")

\* reading .length of videoDescription (561) throws when it is no string
ReadLengthError == L("Cannot read properties of undefined (reading 'length')")


\* the outer catch looking for private/unavailable before transcript
YtCatch_privateFirst(msg) ==
    IF "private" \in WordsOf(msg) \/ "unavailable" \in WordsOf(msg)
    THEN Failure(L("This video is private or unavailable. Please check the URL and try a public video."))
    ELSE IF "transcript" \in WordsOf(msg)
    THEN Failure(L("This video does not have transcripts available. Try a different video with captions/subtitles enabled."))
    ELSE IF "blocked" \in WordsOf(msg) \/ "restricted" \in WordsOf(msg)
    THEN Failure(L("Access to this video is restricted. Try a different video or check regional availability."))
    ELSE Failure(L("Enhanced YouTube scraping failed:") \o W(1) \o msg
                    \o L(". Please try a different video."))

\* the outer catch of the chain (572-603)
YtCatch(msg) ==
    IF "transcript" \in WordsOf(msg)
    THEN Failure(L("This video does not have transcripts available. Try a different video with captions/subtitles enabled."))
    ELSE IF "private" \in WordsOf(msg) \/ "unavailable" \in WordsOf(msg)
    THEN Failure(L("This video is private or unavailable. Please check the URL and try a public video."))
    ELSE IF "blocked" \in WordsOf(msg) \/ "restricted" \in WordsOf(msg)
    THEN Failure(L("Access to this video is restricted. Try a different video or check regional availability."))
    ELSE Failure(L("Enhanced YouTube scraping failed:") \o W(1) \o msg
                    \o L(". Please try a different video."))

\* the result with a count of the extractions made so far in its title
YtSuccess_counted(l) ==
    [success |-> TRUE,
     title |-> L("Video ") \o NumStr(IF other.pc = "returned" THEN 2 ELSE 1),
     content |-> Trim(finalContent(l)),
     metadata |-> [videoId |-> l.videoId, channel |-> l.channelName,
                   viewCount |-> l.viewCount, publishDate |-> l.publishDate,
                   type |-> "video", platform |-> "YouTube", url |-> url,
                   contentLength |-> StrLen(finalContent(l)),
                   sources |-> contentSources(l),
                   hasTranscript |-> StrLen(l.transcript) > 100,
                   hasDescription |-> StrLen(l.videoDescription) > 20]]

\* the result object (545-564)
YtSuccess(l) ==
    [success |-> TRUE,
     title |-> IF Truthy(l.videoTitle) THEN l.videoTitle
               ELSE L("YouTube Video -") \o W(1) \o l.videoId,
     content |-> Trim(finalContent(l)),
     metadata |-> [videoId |-> l.videoId, channel |-> l.channelName,
                   viewCount |-> l.viewCount, publishDate |-> l.publishDate,
                   type |-> "video", platform |-> "YouTube", url |-> url,
                   contentLength |-> StrLen(finalContent(l)),
                   sources |-> contentSources(l),
                   hasTranscript |-> StrLen(l.transcript) > 100,
                   hasDescription |-> StrLen(l.videoDescription) > 20]]

\* the chain handing out what it has along with the failure
YtResult_partial(l) ==
    IF Insufficient(finalContent(l))
    THEN [success |-> FALSE, error |-> InsufficientMessage,
          title |-> l.videoTitle, content |-> Trim(finalContent(l))]
    ELSE IF l.videoDescription \in {Undefined, Null} THEN YtCatch(ReadLengthError)
    ELSE YtSuccess(l)

\* what the chain returns once its strategies are through (489-603)
YtResult(l) ==
    IF Insufficient(finalContent(l)) THEN Failure(InsufficientMessage)
    ELSE IF l.videoDescription \in {Undefined, Null} THEN YtCatch(ReadLengthError)
    ELSE YtSuccess(l)

----------------------------------------------------------------------------
(* scrapeYouTubeContentEnhanced: the strategies *)

\* an entry of the history `tried`: the strategy, the language hint of a
\* transcript call, the message of the error it threw (Empty when it threw
\* none) and the title it produced (the page: videoTitle after the parsing;
\* oEmbed: the title of its answer); a transcript call also has the number of
\* segments it was answered with, and the article fetch the document it got;
\* heard is the answer of the remote endpoint
Strategy(name, lang, err, title) == [s |-> name, lang |-> lang, err |-> err, title |-> title]

\* what the strategies throw
ImportError == L("Cannot find module 'youtube-transcript'")
TranscriptError == L("Transcript is disabled on this video")

\* a strategy's error leaving its try block
Caught_rethrown(next) == "escape"

\* where the chain goes when a strategy's own try block catches (351-358,
\* 444-446, 460-462, 484-486): on to what follows the block
Caught(next) == next

\* the chain from 489 on: no await is left, the response is sent
YtFinish(l) ==
    /\ Respond(ResultStatus(YtResult(l)), YtResult(l))
    /\ yt' = l

\* the chain that escapes to the outer catch with an error of a strategy
YtEscape(l, msg) ==
    /\ Respond(ResultStatus(YtCatch(msg)), YtCatch(msg))
    /\ yt' = l

\* the chain after the oEmbed block (465-466)
AfterOembed(l) ==
    IF ApiWanted(l)
    THEN spc' = "yt_api" /\ yt' = l /\ response' = response
    ELSE YtFinish(l)

\* the chain asking oEmbed whatever the title is
AfterPage_always(l) == spc' = "yt_oembed" /\ yt' = l /\ response' = response

\* the chain after the page block (448-450)
AfterPage(l) ==
    IF looksWeakTitle(l.videoTitle)
    THEN spc' = "yt_oembed" /\ yt' = l /\ response' = response
    ELSE AfterOembed(l)

\* the continuation named by a position of the chain
Continue(next, l, err) ==
    CASE next = "yt_transcript" -> spc' = "yt_transcript" /\ yt' = l /\ response' = response
      [] next = "yt_page" -> spc' = "yt_page" /\ yt' = l /\ response' = response
      [] next = "after_page" -> AfterPage(l)
      [] next = "after_oembed" -> AfterOembed(l)
      [] next = "finish" -> YtFinish(l)
      [] OTHER -> YtEscape(l, err)

\* await import('youtube-transcript') fails (356-358)
YtImportFails ==
    /\ pc = "await"
    /\ spc = "yt_transcript"
    /\ yt.hint = 1
    /\ tried' = Append(tried, Strategy("import", "", ImportError, Empty)
                                @@ [heard |-> Answer([kind |-> "throw"])])
    /\ outbound' = outbound
    /\ Continue(Caught("yt_page"), yt, ImportError)
    /\ UNCHANGED clientVars
    /\ UNCHANGED inputVars

\* one fetchTranscript call of the loop over transcriptAttempts (337-355)
YtTranscript ==
    /\ pc = "await"
    /\ spc = "yt_transcript"
    /\ \E o \in TranscriptOutcomes :
         /\ tried' = Append(tried,
                            Strategy("transcript", transcriptAttempts[yt.hint],
                                     IF o.kind = "throw" THEN TranscriptError ELSE Empty,
                                     Empty)
                                @@ [segments |-> Len(o.segments), heard |-> Answer(o)])
         /\ outbound' = outbound + 1
         /\ IF o.kind = "ok" /\ Len(o.segments) > 0
            THEN Continue("yt_page",
                          [yt EXCEPT !.transcript = CleanTranscript(o.segments)], Empty)
            ELSE IF yt.hint < Len(transcriptAttempts)
            THEN Continue(IF o.kind = "throw" THEN Caught("yt_transcript")
                          ELSE "yt_transcript",
                          [yt EXCEPT !.hint = @ + 1], TranscriptError)
            ELSE Continue(IF o.kind = "throw" THEN Caught("yt_page") ELSE "yt_page",
                          yt, TranscriptError)
    /\ UNCHANGED clientVars
    /\ UNCHANGED inputVars

\* the fetch of the watch page and the parsing of its HTML (360-446)
YtPage ==
    /\ pc = "await"
    /\ spc = "yt_page"
    /\ \E o \in PageOutcomes :
         /\ tried' = Append(tried,
                            Strategy("page", "",
                                     IF o.kind = "throw" THEN FetchFailed ELSE Empty,
                                     IF o.kind = "ok" THEN ScrapePage(yt, o.page).videoTitle
                                     ELSE yt.videoTitle)
                                @@ [heard |-> Answer(o)])
         /\ outbound' = outbound + 1
         /\ CASE o.kind = "ok" -> Continue("after_page", ScrapePage(yt, o.page), Empty)
              [] o.kind = "status" -> Continue("after_page", yt, Empty)
              [] o.kind = "throw" -> Continue(Caught("after_page"), yt, FetchFailed)
    /\ UNCHANGED clientVars
    /\ UNCHANGED inputVars

\* the oEmbed request (450-463)
YtOembed ==
    /\ pc = "await"
    /\ spc = "yt_oembed"
    /\ \E o \in OembedOutcomes :
         /\ tried' = Append(tried,
                            Strategy("oembed", "",
                                     IF o.kind = "throw" THEN FetchFailed ELSE Empty,
                                     IF o.kind = "ok" THEN o.title ELSE Undefined)
                                @@ [heard |-> Answer(o)])
         /\ outbound' = outbound + 1
         /\ CASE o.kind = "ok" ->
                   Continue("after_oembed",
                            [yt EXCEPT !.videoTitle = OembedTitle(@, o),
                                       !.channelName = OembedChannel(@, o)], Empty)
              [] o.kind = "status" -> Continue("after_oembed", yt, Empty)
              [] o.kind = "throw" -> Continue(Caught("after_oembed"), yt, FetchFailed)
    /\ UNCHANGED clientVars
    /\ UNCHANGED inputVars

\* the videos.list request of the platform API (466-487)
YtApi ==
    /\ pc = "await"
    /\ spc = "yt_api"
    /\ \E o \in ApiOutcomes :
         /\ tried' = Append(tried,
                            Strategy("api", "",
                                     CASE o.kind = "throw" -> FetchFailed
                                       [] o.kind = "ok" /\ Len(o.items) > 0
                                            /\ ApiItemThrows(yt, o.items[1]) -> ReadViewCountError
                                       [] OTHER -> Empty,
                                     Empty)
                                @@ [heard |-> Answer(o)])
         /\ outbound' = outbound + 1
         /\ CASE o.kind = "ok" /\ Len(o.items) > 0 ->
                   Continue(IF ApiItemThrows(yt, o.items[1]) THEN Caught("finish")
                            ELSE "finish",
                            ApplyApiItem(yt, o.items[1]), ReadViewCountError)
              [] o.kind = "ok" /\ Len(o.items) = 0 -> Continue("finish", yt, Empty)
              [] o.kind = "status" -> Continue("finish", yt, Empty)
              [] o.kind = "throw" -> Continue(Caught("finish"), yt, FetchFailed)
    /\ UNCHANGED clientVars
    /\ UNCHANGED inputVars

----------------------------------------------------------------------------
(* scrapeArticleContentEnhanced *)

\* markup of a capture: tags, and script or style blocks
Tag(t) == <<Tok(t, Len(t))>>
TagTexts == {"<p>", "</p>", "<div>", "</div>", "<b>", "</b>"}
BlockTexts == {"<script>track()</script>", "<style>p{}</style>"}

RECURSIVE RemoveBlocks(_)
\* .replace(/<script[\s\S]*?<\/script>/gi, '').replace(/<style[\s\S]*?<\/style>/gi, '')
RemoveBlocks(s) ==
    IF s = <<>> THEN <<>>
    ELSE IF Head(s).t \in BlockTexts THEN RemoveBlocks(Tail(s))
    ELSE <<Head(s)>> \o RemoveBlocks(Tail(s))

RECURSIVE ReplaceTags(_, _)
\* .replace(/<[^>]+>/g, by)
ReplaceTags(s, by) ==
    IF s = <<>> THEN <<>>
    ELSE IF Head(s).t \in TagTexts \/ Head(s).t \in BlockTexts
    THEN by \o ReplaceTags(Tail(s), by)
    ELSE <<Head(s)>> \o ReplaceTags(Tail(s), by)

\* the cleaning of the capture of a pattern that is not global (679-684)
CleanBlock(raw) == Trim(CollapseSpace(ReplaceTags(RemoveBlocks(raw), W(1))))

\* one paragraph with its tags taken out (675)
CleanParagraph(raw) == Trim(ReplaceTags(raw, Empty))

RECURSIVE KeptParagraphs(_)
\* .filter(p => p.length > 20)
KeptParagraphs(ps) ==
    IF ps = <<>> THEN <<>>
    ELSE IF StrLen(CleanParagraph(Head(ps))) > 20
    THEN <<CleanParagraph(Head(ps))>> \o KeptParagraphs(Tail(ps))
    ELSE KeptParagraphs(Tail(ps))

\* the content of the paragraph pattern (674-677)
JoinParagraphs(ps) == Join(KeptParagraphs(ps), W(2))

\* whether the content loop stops at a candidate (687)
ContentLongEnough(c) == StrLen(c) > 200

RECURSIVE ContentLoop_noBreak(_, _, _, _)
\* the loop over contentPatterns going through every pattern
ContentLoop_noBreak(cands, ps, i, cur) ==
    IF i > Len(cands) + 1 THEN cur
    ELSE IF i <= Len(cands) /\ cands[i] = Null THEN ContentLoop_noBreak(cands, ps, i + 1, cur)
    ELSE IF i = Len(cands) + 1 /\ ps = <<>> THEN cur
    ELSE ContentLoop_noBreak(cands, ps, i + 1,
                             IF i = Len(cands) + 1 THEN JoinParagraphs(ps)
                             ELSE CleanBlock(cands[i]))

RECURSIVE ContentLoop(_, _, _, _)
\* the loop over contentPatterns (669-689) from pattern i on; cur is content.
\* cands are the captures of the six patterns that are not global, Null for a
\* pattern without a match; ps are the matches of the <p> pattern, the seventh
ContentLoop(cands, ps, i, cur) ==
    IF i > Len(cands) + 1 THEN cur
    ELSE IF i <= Len(cands) /\ cands[i] = Null THEN ContentLoop(cands, ps, i + 1, cur)
    ELSE IF i = Len(cands) + 1 /\ ps = <<>> THEN cur
    ELSE LET c == IF i = Len(cands) + 1 THEN JoinParagraphs(ps) ELSE CleanBlock(cands[i])
         IN IF ContentLongEnough(c) THEN c ELSE ContentLoop(cands, ps, i + 1, c)

\* title = match[1].trim().replace(/\s+/g, ' ') (648)
CleanArticleTitle(raw) == CollapseSpace(Trim(raw))

RECURSIVE ArticleTitleLoop(_, _, _)
\* the loop over titlePatterns (645-651)
ArticleTitleLoop(caps, i, cur) ==
    IF i > Len(caps) THEN cur
    ELSE IF Truthy(caps[i])
    THEN IF TitleLongEnough(CleanArticleTitle(caps[i]))
         THEN CleanArticleTitle(caps[i])
         ELSE ArticleTitleLoop(caps, i + 1, CleanArticleTitle(caps[i]))
    ELSE ArticleTitleLoop(caps, i + 1, cur)

RECURSIVE FirstMatch(_, _)
\* the loops over metaPatterns (710-720): the first pattern that matches
FirstMatch(caps, i) ==
    IF i > Len(caps) THEN Empty
    ELSE IF Truthy(caps[i]) THEN Trim(caps[i])
    ELSE FirstMatch(caps, i + 1)

\* a fetched document, by what the patterns capture in it
Article(titles, cands, ps, authors, dates, descs) ==
    [titles |-> titles, cands |-> cands, ps |-> ps, authors |-> authors,
     dates |-> dates, descs |-> descs]

Paragraph(text) == Tag("<p>") \o text \o Tag("</p>")
NoMatch3 == <<Null, Null, Null>>
NoMatch2 == <<Null, Null>>
NoMatch6 == <<Null, Null, Null, Null, Null, Null>>

ArticlePages ==
    { Article(<<W(1) \o <<Tok("An Article", 7)>> \o W(2) \o <<Tok("Title", 5)>>, Null, Null, Null>>,
              <<Null, Null,
                Tag("<div>") \o <<Tok("article text", 300)>> \o Tag("<script>track()</script>")
                    \o Tag("</div>"),
                Null, Null, Null>>,
              <<>>,
              <<L("A. Writer"), Null, Null>>, <<Null, L("2024-01-01"), Null>>,
              <<L("What the article is about"), Null>>),
      Article(NoMatch4, NoMatch6, <<Paragraph(<<Tok("paragraph text", 99)>>)>>,
              NoMatch3, NoMatch3, NoMatch2),
      Article(NoMatch4, NoMatch6,
              <<Paragraph(<<Tok("paragraph text", 101)>>), Paragraph(<<Tok("menu", 4)>>)>>,
              NoMatch3, NoMatch3, NoMatch2),
      Article(NoMatch4, NoMatch6, <<Paragraph(<<Tok("paragraph text", 100)>>)>>,
              NoMatch3, NoMatch3, NoMatch2),
      Article(<<L("Home"), Null, Null, Null>>,
              <<Null, Null, <<Tok("article text", 150)>>, Null, Null, Null>>,
              <<Paragraph(<<Tok("paragraph text", 30)>>)>>,
              NoMatch3, NoMatch3, NoMatch2),
      Article(<<L("Two Candidates"), Null, Null, Null>>,
              <<Null, <<Tok("caption text", 40)>>,
                Tag("<p>") \o <<Tok("article text", 250)>> \o Tag("</p>"),
                Null, <<Tok("content div text", 400)>>, Null>>,
              <<Paragraph(<<Tok("paragraph text", 500)>>)>>,
              NoMatch3, NoMatch3, NoMatch2),
      Article(NoMatch4, NoMatch6, <<>>, NoMatch3, NoMatch3, NoMatch2) }

NoArticle == Article(NoMatch4, NoMatch6, <<>>, NoMatch3, NoMatch3, NoMatch2)

\* the non-2xx statuses the target answers with
ArticleStatuses == {403, 404, 500}

\* what fetch(url) of the article does: it rejects (no connection, the 15 s
\* abort signal) or it answers
ArticleOutcomes ==
    {[kind |-> "network", status |-> 0, page |-> NoArticle],
     [kind |-> "timeout", status |-> 0, page |-> NoArticle]}
        \cup {[kind |-> "status", status |-> st, page |-> NoArticle] : st \in ArticleStatuses}
        \cup {[kind |-> "ok", status |-> 200, page |-> pg] : pg \in ArticlePages}

\* the Error thrown inside the try block (611-626)
ArticleError(o) ==
    CASE o.kind = "network" -> FetchFailed
      [] o.kind = "timeout" -> TimeoutError
      [] o.kind = "status" -> L("HTTP ") \o NumStr(o.status) \o L(": ") \o StatusText(o.status)

\* the catch block without its special cases
ArticleCatch_generic(msg) == Failure(L("Article scraping failed:") \o W(1) \o msg)

\* the catch block (767-790)
ArticleCatch(msg) ==
    IF "timeout" \in WordsOf(msg)
    THEN Failure(L("The website took too long to respond. Try a different article or check your internet connection."))
    ELSE IF "403" \in WordsOf(msg) \/ "forbidden" \in WordsOf(msg)
    THEN Failure(L("Access to this website is restricted. Try a different article from a more accessible source."))
    ELSE Failure(L("Article scraping failed:") \o W(1) \o msg)

\* the quality gate asking for more than 200 characters
TooShort_long(c) == ~Truthy(c) \/ StrLen(c) <= 200

\* the quality gate: !content || content.length < 100 (723)
TooShort(c) == ~Truthy(c) \/ StrLen(c) < 100

ArticleTooShortMessage == L("Could not extract meaningful content from this article. The site may use heavy JavaScript or have access restrictions.")

\* the ARTICLE ANALYSIS block (731-742)
ArticleContent(u, title, author, published, content, description) ==
    Trim(W(1) \o L("ARTICLE ANALYSIS:") \o W(1) \o L("Title:") \o W(1)
         \o (IF Truthy(title) THEN title ELSE L("Untitled Article"))
         \o W(1) \o L("Author:") \o W(1)
         \o (IF Truthy(author) THEN author ELSE L("Unknown Author"))
         \o W(1)
         \o (IF Truthy(published) THEN L("Published:") \o W(1) \o published ELSE Empty)
         \o W(1) \o L("Source:") \o W(1) \o Hostname(u)
         \o W(2) \o L("CONTENT:") \o W(1) \o content \o W(2)
         \o (IF Truthy(description) THEN W(1) \o L("SUMMARY:") \o W(1) \o description
             ELSE Empty)
         \o W(5))

\* what the chain returns for a fetched document (628-765)
ArticleResult(u, pg) ==
    LET title == ArticleTitleLoop(pg.titles, 1, Empty)
        content == ContentLoop(pg.cands, pg.ps, 1, Empty)
        author == FirstMatch(pg.authors, 1)
        published == FirstMatch(pg.dates, 1)
        description == FirstMatch(pg.descs, 1)
    IN IF TooShort(content) THEN Failure(ArticleTooShortMessage)
       ELSE [success |-> TRUE,
             title |-> IF Truthy(title) THEN title ELSE L("Untitled Article"),
             content |-> ArticleContent(u, title, author, published, content, description),
             metadata |-> [author |-> author, publishDate |-> published,
                           description |-> description, domain |-> Hostname(u),
                           type |-> "article", url |-> u,
                           contentLength |->
                               StrLen(ArticleContent(u, title, author, published,
                                                     content, description)),
                           source |-> "Enhanced Web Scraping",
                           hasMetadata |-> Truthy(author) \/ Truthy(published)
                                               \/ Truthy(description)]]

\* the chain's result for an outcome of its fetch
scrapeArticleContentEnhanced(u, o) ==
    IF o.kind = "ok" THEN ArticleResult(u, o.page) ELSE ArticleCatch(ArticleError(o))

\* the article chain: one fetch, then the extraction, all in one try block
ArticleFetch ==
    /\ pc = "await"
    /\ spc = "article_fetch"
    /\ \E o \in ArticleOutcomes :
         /\ tried' = Append(tried,
                            Strategy("article", "",
                                     IF o.kind = "ok" THEN Empty ELSE ArticleError(o),
                                     ArticleTitleLoop(o.page.titles, 1, Empty))
                                @@ [doc |-> o.page, heard |-> Answer(o)])
         /\ outbound' = outbound + 1
         /\ Respond(ResultStatus(scrapeArticleContentEnhanced(url, o)),
                    scrapeArticleContentEnhanced(url, o))
    /\ yt' = yt
    /\ UNCHANGED clientVars
    /\ UNCHANGED inputVars

----------------------------------------------------------------------------
(* The system: one call of scrapeContent, the route serving its requests *)

Init ==
    /\ \E c \in Calls : url = c[1] /\ type = c[2]
    /\ env \in [YOUTUBE_API_KEY : BOOLEAN]
    /\ pc = "loop"
    /\ attempt = 1
    /\ lastError = Null
    /\ result = NoResult
    /\ requests = 0
    /\ outcomes = <<>>
    /\ errors = <<>>
    /\ waits = <<>>
    /\ elapsed = 0
    /\ spc = "idle"
    /\ response = NoResponse
    /\ yt = YtIdle
    /\ tried = <<>>
    /\ outbound = 0
    /\ caller = NoCaller
    /\ other = NoOther
    /\ connectedItems = <<>>
    /\ enrichedContext = Null
    /\ chat = ChatIdle

Next ==
    \/ Fetch
    \/ FetchFails
    \/ Receive
    \/ Sleep
    \/ POST
    \/ YtImportFails
    \/ YtTranscript
    \/ YtPage
    \/ YtOembed
    \/ YtApi
    \/ ArticleFetch

Spec == Init /\ [][Next]_vars

----------------------------------------------------------------------------
(* The outer catch of scrapeYouTubeContentEnhanced, entered with any error *)

\* texts of errors, with and without the words the catch block looks for
ErrorTexts ==
    {"Transcript is disabled on this video", "Video unavailable",
     "This video is private", "BLOCKED in your country", "Age-restricted video",
     "fetch failed"}

\* the messages of the errors thrown into the catch block: one text, or two
CatchMessages ==
    {L(a) : a \in ErrorTexts} \cup {L(a) \o L(b) : a \in ErrorTexts, b \in ErrorTexts}

\* a request is being served and an error has just been thrown inside the try
\* block of the chain (310-571)
CatchInit ==
    /\ url = UrlWatch
    /\ type = "youtube"
    /\ env \in [YOUTUBE_API_KEY : BOOLEAN]
    /\ pc = "await"
    /\ attempt = 1
    /\ lastError = Null
    /\ result = NoResult
    /\ requests = 1
    /\ outcomes = <<>>
    /\ errors = <<>>
    /\ waits = <<>>
    /\ elapsed = 0
    /\ spc = "yt_catch"
    /\ response = NoResponse
    /\ yt = YtLocals(extractYouTubeVideoId(UrlWatch))
    /\ \E msg \in CatchMessages : tried = <<Strategy("thrown", "", msg, Empty)>>
    /\ outbound = 0
    /\ caller = NoCaller
    /\ other = NoOther
    /\ connectedItems = <<>>
    /\ enrichedContext = Null
    /\ chat = ChatIdle

\* the catch block (572-603) answers for the error it caught
YtOuterCatch ==
    /\ pc = "await"
    /\ spc = "yt_catch"
    /\ YtEscape(yt, Last(tried).err)
    /\ UNCHANGED <<tried, outbound>>
    /\ UNCHANGED clientVars
    /\ UNCHANGED inputVars

CatchNext == Next \/ YtOuterCatch

CatchSpec == (Init \/ CatchInit) /\ [][CatchNext]_vars

----------------------------------------------------------------------------
(* scrapeWithAssemblyAI, scrapeWithCustomAPI and scrapeContentEnhanced *)

\* the first pattern of the library's extractYouTubeVideoId (97): the
\* alternatives of the route's without youtube.com/v/
LibFirstPattern(u) ==
    LET ks == 1..3
        hits == {i \in 1..Len(u) : \E k \in ks : PrefixAt(u, IdPrefixes[k], i)}
    IN IF hits = {} THEN Null
       ELSE LET i == CHOOSE j \in hits : \A h \in hits : j <= h
                k == CHOOSE j \in ks :
                        /\ PrefixAt(u, IdPrefixes[j], i)
                        /\ \A h \in ks : PrefixAt(u, IdPrefixes[h], i) => j <= h
            IN IdRun(u, i + Len(IdPrefixes[k]))

\* the library's extractYouTubeVideoId (95-106)
LibExtractYouTubeVideoId(u) ==
    IF LibFirstPattern(u) # Null THEN LibFirstPattern(u) ELSE SecondPattern(u)

\* maxAttempts of the polling loop (153)
maxAttempts == 30

\* whether the custom scraper is configured (201, 254)
CustomConfigured == env.CUSTOM_SCRAPER_API_KEY /\ env.CUSTOM_SCRAPER_API_URL

\* the result of a completed transcription (166-180)
AssemblyResult(text) ==
    [success |-> TRUE,
     title |-> L("YouTube Video Transcript"),
     content |-> text,
     metadata |-> [type |-> "video", description |-> L("Transcript generated by AssemblyAI")]]

\* the answers of the custom scraper: a full one, and an empty object
CustomAnswers ==
    {[title |-> L("Custom Title"), content |-> <<Tok("custom content", 400)>>, type |-> "article"],
     [title |-> Undefined, content |-> Undefined, type |-> ""]}

\* the result built from an answer of the custom scraper (222-233)
CustomResult(u, data) ==
    [success |-> TRUE,
     title |-> IF Truthy(data.title) THEN data.title ELSE L("Scraped Content"),
     content |-> IF Truthy(data.content) THEN data.content ELSE Empty,
     metadata |-> [type |-> IF data.type # "" THEN data.type ELSE getContentTypeFromUrl(u)]]

\* scrapeContent(url, t) is called from position at: it starts on fresh
\* locals, and nothing is left of the request the route served before
CallScrape(c, t, at) ==
    /\ caller' = [c EXCEPT !.at = at, !.polls = 0, !.calls = Append(@, t)]
    /\ type' = t
    /\ pc' = "loop"
    /\ attempt' = 1
    /\ lastError' = Null
    /\ result' = NoResult
    /\ requests' = 0
    /\ outcomes' = <<>>
    /\ errors' = <<>>
    /\ waits' = <<>>
    /\ elapsed' = 0
    /\ spc' = "idle"
    /\ response' = NoResponse
    /\ yt' = YtIdle
    /\ tried' = <<>>
    /\ outbound' = 0

\* the entry point returns r
Return(c, r) ==
    /\ caller' = [c EXCEPT !.at = "done", !.polls = 0, !.out = r]
    /\ UNCHANGED <<type, clientVars, handlerVars>>

\* scrapeContentEnhanced from its last step on: the regular scraping (260-261)
EnhancedRegular(c) == CallScrape(c, c.type, "e_scrape")

\* scrapeWithCustomAPI returns r, to its caller (254-258) or as the entry point
CustomReturns(c, r) ==
    IF c.fn = "scrapeContentEnhanced" /\ ~r.success THEN EnhancedRegular(c) ELSE Return(c, r)

\* the catch block of scrapeWithCustomAPI (235-239)
CustomCatch(c) == CallScrape(c, getContentTypeFromUrl(url), "c_scrape")

\* scrapeWithCustomAPI up to its first await (196-203)
CustomBegin(c) ==
    IF ~CustomConfigured THEN CallScrape(c, getContentTypeFromUrl(url), "c_scrape")
    ELSE caller' = [c EXCEPT !.at = "c_fetch", !.polls = 0] /\ UNCHANGED <<type, clientVars, handlerVars>>

\* scrapeContentEnhanced from the custom scraper on (252-258)
EnhancedCustom(c) ==
    IF CustomConfigured THEN CustomBegin(c) ELSE EnhancedRegular(c)

\* scrapeWithAssemblyAI's result returned by its caller whatever it is
AssemblyReturns_direct(c, r) == Return(c, r)

\* scrapeWithAssemblyAI returns r, to its caller (245-249) or as the entry point
AssemblyReturns(c, r) ==
    IF c.fn = "scrapeContentEnhanced" /\ ~r.success THEN EnhancedCustom(c) ELSE Return(c, r)

\* a catch block that passes on the type its caller was given
AssemblyCatch_declared(c) == CallScrape(c, c.type, "a_scrape")

\* the catch block of scrapeWithAssemblyAI (187-191)
AssemblyCatch(c) == CallScrape(c, "youtube", "a_scrape")

\* scrapeWithAssemblyAI without the test of its key
AssemblyBegin_noKeyCheck(c) ==
    IF LibExtractYouTubeVideoId(url) = Null
    THEN AssemblyReturns(c, Failure(L("Invalid YouTube URL")))
    ELSE caller' = [c EXCEPT !.at = "a_post"] /\ UNCHANGED <<type, clientVars, handlerVars>>

\* scrapeWithAssemblyAI up to its first await (110-124)
AssemblyBegin(c) ==
    IF LibExtractYouTubeVideoId(url) = Null
    THEN AssemblyReturns(c, Failure(L("Invalid YouTube URL")))
    ELSE IF ~env.ASSEMBLYAI_API_KEY THEN CallScrape(c, "youtube", "a_scrape")
    ELSE caller' = [c EXCEPT !.at = "a_post"] /\ UNCHANGED <<type, clientVars, handlerVars>>

\* an entry point is called and runs to its first await
Enter ==
    /\ caller.at = "start"
    /\ CASE caller.fn = "scrapeWithAssemblyAI" -> AssemblyBegin(caller)
         [] caller.fn = "scrapeWithCustomAPI" -> CustomBegin(caller)
         [] OTHER ->
              IF caller.type = "youtube" /\ env.ASSEMBLYAI_API_KEY
              THEN AssemblyBegin(caller)
              ELSE EnhancedCustom(caller)
    /\ UNCHANGED <<url, env, other, aiVars>>

\* what the request that opens a transcription does (127-145): it rejects,
\* answers a status that is not ok, or answers a job that is queued or
\* already completed
AssemblyPostOutcomes == {"throw", "status", "queued", "completed"}

\* the request that opens the transcription (127-151); for a job that is
\* completed already the loop is not entered and line 185 throws
AssemblyPost ==
    /\ caller.at = "a_post"
    /\ \E o \in AssemblyPostOutcomes :
         LET c == [caller EXCEPT !.asked = @ \cup {"assemblyai"}]
         IN CASE o = "queued" ->
                   caller' = [c EXCEPT !.at = "a_poll"] /\ UNCHANGED <<type, clientVars, handlerVars>>
              [] o = "completed" -> AssemblyCatch([c EXCEPT !.ended = "completed"])
              [] OTHER -> AssemblyCatch(c)
    /\ UNCHANGED <<url, env, other, aiVars>>

\* what one poll of the transcription does (152-166)
AssemblyPollOutcomes == {"throw", "error", "completed", "processing"}

\* statusData.text of a completed job: a long recording, and a short one
AssemblyTexts == {<<Tok("transcribed speech", 900)>>, <<Tok("Thanks for watching.", 20)>>}

\* one iteration of the polling loop (151-183), and the time-out after the
\* last one (185)
AssemblyPoll ==
    /\ caller.at = "a_poll"
    /\ caller.polls < maxAttempts
    /\ \E o \in AssemblyPollOutcomes, text \in AssemblyTexts :
         CASE o = "completed" ->
                 AssemblyReturns([caller EXCEPT !.ended = "completed"], AssemblyResult(text))
           [] o = "processing" /\ caller.polls + 1 < maxAttempts ->
                 caller' = [caller EXCEPT !.polls = @ + 1] /\ UNCHANGED <<type, clientVars, handlerVars>>
           [] o = "processing" /\ caller.polls + 1 >= maxAttempts ->
                 AssemblyCatch([caller EXCEPT !.ended = "timeout"])
           [] OTHER -> AssemblyCatch(caller)
    /\ UNCHANGED <<url, env, other, aiVars>>

\* what the request to the custom scraper does (205-220)
CustomOutcomes ==
    {[kind |-> "throw", data |-> <<>>], [kind |-> "status", data |-> <<>>]}
        \cup {[kind |-> "ok", data |-> d] : d \in CustomAnswers}

\* the request to the custom scraper (205-233)
CustomFetch ==
    /\ caller.at = "c_fetch"
    /\ \E o \in CustomOutcomes :
         LET c == [caller EXCEPT !.asked = @ \cup {"custom"}]
         IN IF o.kind = "ok" THEN CustomReturns(c, CustomResult(url, o.data))
            ELSE CustomCatch(c)
    /\ UNCHANGED <<url, env, other, aiVars>>

\* the awaited scrapeContent has returned
ScrapeReturns ==
    /\ pc = "returned"
    /\ caller.at \in {"a_scrape", "c_scrape", "e_scrape"}
    /\ CASE caller.at = "a_scrape" -> AssemblyReturns(caller, result)
         [] caller.at = "c_scrape" -> CustomReturns(caller, result)
         [] OTHER -> Return(caller, result)
    /\ UNCHANGED <<url, env, other, aiVars>>

\* the calls of the entry points: scrapeContentEnhanced(url, type),
\* scrapeWithAssemblyAI(url) and scrapeWithCustomAPI(url)
EnhancedCalls ==
    {<<"scrapeContentEnhanced", UrlWatch, "youtube">>,
     <<"scrapeContentEnhanced", UrlArticle, "url">>,
     <<"scrapeContentEnhanced", UrlPlaylist, "youtube">>,
     <<"scrapeWithAssemblyAI", UrlWatch, "">>,
     <<"scrapeWithAssemblyAI", UrlPlaylist, "">>,
     <<"scrapeWithCustomAPI", UrlArticle, "">>,
     <<"scrapeWithCustomAPI", UrlPlaylist, "">>}

\* an entry point is about to be called, with any subset of the credentials
\* the library reads; the credential the route reads is absent here, and
\* absent or present in Init
EnhancedInit ==
    /\ \E c \in EnhancedCalls :
         /\ url = c[2]
         /\ caller = Caller(c[1], c[3], "start")
    /\ type = ""
    /\ env \in [YOUTUBE_API_KEY : {FALSE}, ASSEMBLYAI_API_KEY : BOOLEAN,
                CUSTOM_SCRAPER_API_KEY : BOOLEAN, CUSTOM_SCRAPER_API_URL : BOOLEAN]
    /\ pc = "idle"
    /\ attempt = 1
    /\ lastError = Null
    /\ result = NoResult
    /\ requests = 0
    /\ outcomes = <<>>
    /\ errors = <<>>
    /\ waits = <<>>
    /\ elapsed = 0
    /\ spc = "idle"
    /\ response = NoResponse
    /\ yt = YtIdle
    /\ tried = <<>>
    /\ outbound = 0
    /\ other = NoOther
    /\ connectedItems = <<>>
    /\ enrichedContext = Null
    /\ chat = ChatIdle

EnhancedNext ==
    \/ Next
    \/ Enter
    \/ AssemblyPost
    \/ AssemblyPoll
    \/ CustomFetch
    \/ ScrapeReturns

EnhancedSpec == (Init \/ EnhancedInit) /\ [][EnhancedNext]_vars

\* the calls of scrapeWithAssemblyAI alone, with its key present or absent
AssemblyInit ==
    /\ EnhancedInit
    /\ caller.fn = "scrapeWithAssemblyAI"
    /\ ~env.CUSTOM_SCRAPER_API_KEY
    /\ ~env.CUSTOM_SCRAPER_API_URL

AssemblyNext ==
    \/ Next
    \/ Enter
    \/ AssemblyPost
    \/ AssemblyPoll
    \/ ScrapeReturns

\* every request that is awaited is answered or fails: a step that can be
\* taken is taken
AssemblySpec == (Init \/ AssemblyInit) /\ [][AssemblyNext]_vars /\ WF_vars(AssemblyNext)

----------------------------------------------------------------------------
(* Two extractions of the same URL running at the same time *)

\* the variables an extraction declares: those of scrapeContent (20-23) and
\* those of the route serving its request
Locals ==
    [pc |-> pc, attempt |-> attempt, lastError |-> lastError, result |-> result,
     requests |-> requests, outcomes |-> outcomes, errors |-> errors, waits |-> waits,
     elapsed |-> elapsed, spc |-> spc, response |-> response, yt |-> yt,
     tried |-> tried, outbound |-> outbound]

\* an extraction going on with the attempt counter the other one left
Resume_sharedAttempt(s) ==
    /\ pc' = s.pc
    /\ attempt' = attempt
    /\ lastError' = s.lastError
    /\ result' = s.result
    /\ requests' = s.requests
    /\ outcomes' = s.outcomes
    /\ errors' = s.errors
    /\ waits' = s.waits
    /\ elapsed' = s.elapsed
    /\ spc' = s.spc
    /\ response' = s.response
    /\ yt' = s.yt
    /\ tried' = s.tried
    /\ outbound' = s.outbound

\* an extraction goes on after an await: on the variables of its own call
Resume(s) ==
    /\ pc' = s.pc
    /\ attempt' = s.attempt
    /\ lastError' = s.lastError
    /\ result' = s.result
    /\ requests' = s.requests
    /\ outcomes' = s.outcomes
    /\ errors' = s.errors
    /\ waits' = s.waits
    /\ elapsed' = s.elapsed
    /\ spc' = s.spc
    /\ response' = s.response
    /\ yt' = s.yt
    /\ tried' = s.tried
    /\ outbound' = s.outbound

\* the answers of the remote endpoints to the request in flight
Heard(t) == [i \in DOMAIN t |-> t[i].heard]

\* two histories are the same as far as both go
Agree(x, y) == \A i \in DOMAIN x \cap DOMAIN y : x[i] = y[i]

\* the remote responses of two extractions are the same as far as both have
\* got: request by request the same outcome and the same error, and within a
\* request in which both are, the same answers to the route
SameResponses(a, b) ==
    /\ Agree(a.outcomes, b.outcomes)
    /\ Agree(a.errors, b.errors)
    /\ a.requests = b.requests => Agree(Heard(a.tried), Heard(b.tried))

Consistent == Paired => SameResponses(Locals, other)

\* the event loop leaves one extraction at an await, or before its first
\* step, or returned, and goes on with the other; apart tells whether the two
\* have run one after the other so far
Switch ==
    /\ Paired
    /\ pc \in {"await", "sleep", "returned"} \/ requests = 0
    /\ other' = Locals @@ [apart |-> other.apart /\ (pc = "returned" \/ requests = 0)]
    /\ Resume(other)
    /\ UNCHANGED <<url, type, env, caller, aiVars>>

\* the calls made twice
PairCalls == {<<UrlWatch, "youtube">>, <<UrlArticle, "url">>, <<UrlArticle, "tiktok">>}

\* two calls of scrapeContent with the same arguments, neither started
PairInit ==
    /\ \E c \in PairCalls : url = c[1] /\ type = c[2]
    /\ env \in [YOUTUBE_API_KEY : BOOLEAN]
    /\ pc = "loop"
    /\ attempt = 1
    /\ lastError = Null
    /\ result = NoResult
    /\ requests = 0
    /\ outcomes = <<>>
    /\ errors = <<>>
    /\ waits = <<>>
    /\ elapsed = 0
    /\ spc = "idle"
    /\ response = NoResponse
    /\ yt = YtIdle
    /\ tried = <<>>
    /\ outbound = 0
    /\ caller = NoCaller
    /\ other = [pc |-> "loop", attempt |-> 1, lastError |-> Null, result |-> NoResult,
                requests |-> 0, outcomes |-> <<>>, errors |-> <<>>, waits |-> <<>>,
                elapsed |-> 0, spc |-> "idle", response |-> NoResponse, yt |-> YtIdle,
                tried |-> <<>>, outbound |-> 0, apart |-> TRUE]
    /\ connectedItems = <<>>
    /\ enrichedContext = Null
    /\ chat = ChatIdle

\* the requests one extraction of a pair sends at most
PairMaxRequests == 2

\* the answers the extractions of a pair get from the remote endpoints: of
\* each endpoint a failure and one or two answers with content
PairAnswer(e) ==
    LET o == e.heard
    IN CASE e.s = "transcript" ->
               o.kind = "throw" \/ StrLen(CleanTranscript(o.segments)) > 200
         [] e.s = "page" ->
               \/ o.kind = "throw"
               \/ o.kind = "ok" /\ o.page \in
                     {Page(<<GoodTitle \o YouTubeSuffix, Null, Null, Null>>,
                           <<LongDescription, Null, Null, Null>>, L("Some Channel"), L("1234")),
                      Page(<<Null, WeakTitle, Null, Null>>, NoMatch4, Null, Null)}
         [] e.s = "oembed" ->
               o.kind = "throw" \/ (o.kind = "ok" /\ Truthy(o.title) /\ Truthy(o.author_name))
         [] e.s = "api" ->
               \/ o.kind = "throw"
               \/ o.kind = "ok" /\ Len(o.items) = 1 /\ o.items[1].description # Undefined
                     /\ StrLen(o.items[1].description) = 300
         [] e.s = "article" ->
               \/ o.kind = "timeout"
               \/ o.kind = "status" /\ o.status = 500
               \/ o.kind = "ok" /\ Len(o.page.ps) = 0 /\ Truthy(o.page.titles[1])
         [] OTHER -> TRUE

\* the steps of two extractions that get the same remote responses
PairNext ==
    \/ /\ Next
       /\ requests' <= PairMaxRequests
       /\ \A i \in DOMAIN tried' : PairAnswer(tried'[i])
       /\ Consistent'
    \/ Switch /\ Consistent'

PairSpec == PairInit /\ [][PairNext]_vars

----------------------------------------------------------------------------
(* getContentType and extractYouTubeVideoId applied to URLs of a bounded set *)

\* scheme and host of the URLs
UrlOrigins ==
    { Cs(<<"h","t","t","p","s",":","/","/","w","w","w",".","y","o","u","t","u","b","e",".","c","o","m">>),
      Cs(<<"h","t","t","p","s",":","/","/","y","o","u","t","u","b","e",".","c","o","m">>),
      Cs(<<"h","t","t","p","s",":","/","/","y","o","u","t","u",".","b","e">>),
      Cs(<<"h","t","t","p","s",":","/","/","m",".","y","o","u","t","u","b","e",".","c","o","m">>),
      Cs(<<"h","t","t","p","s",":","/","/","w","w","w",".","t","i","k","t","o","k",".","c","o","m">>),
      Cs(<<"h","t","t","p","s",":","/","/","w","w","w",".","i","n","s","t","a","g","r","a","m",".","c","o","m">>),
      Cs(<<"h","t","t","p","s",":","/","/","n","e","w","s",".","o","r","g">>),
      Cs(<<"h","t","t","p","s",":","/","/","e","x","a","m","p","l","e",".","c","o","m">>) }

\* path and query of the URLs, with and without the texts the patterns look for
UrlPaths ==
    { Cs(<<>>),
      Cs(<<"/","w","a","t","c","h","?","v","=","d","Q","w","4","w","9","W","g","X","c","Q","&","t","=","3","0","s">>),
      Cs(<<"/","d","Q","w","4","w","9","W","g","X","c","Q">>),
      Cs(<<"/","e","m","b","e","d","/","d","Q","w","4","w","9","W","g","X","c","Q">>),
      Cs(<<"/","w","a","t","c","h","?","f","e","a","t","u","r","e","=","s","h","a","r","e","&","v","=","d","Q","w","4","w","9","W","g","X","c","Q","#","t">>),
      Cs(<<"/","a","/","1">>),
      Cs(<<"/","a","?","r","e","f","=","y","o","u","t","u","b","e",".","c","o","m">>),
      Cs(<<"/","a","?","r","e","f","=","t","i","k","t","o","k",".","c","o","m">>),
      Cs(<<"/","s","h","a","r","e","?","u","=","y","o","u","t","u",".","b","e","/","a","b","c","1">>),
      Cs(<<"/","v","/","a","b","c","1">>) }

\* a caller holds a URL and has neither its class nor its video id yet
UrlInit ==
    /\ \E o \in UrlOrigins, q \in UrlPaths : url = o \o q
    /\ type = ""
    /\ env \in [YOUTUBE_API_KEY : {FALSE}]
    /\ pc = "classify"
    /\ attempt = 1
    /\ lastError = Null
    /\ result = NoResult
    /\ requests = 0
    /\ outcomes = <<>>
    /\ errors = <<>>
    /\ waits = <<>>
    /\ elapsed = 0
    /\ spc = "idle"
    /\ response = NoResponse
    /\ yt = YtIdle
    /\ tried = <<>>
    /\ outbound = 0
    /\ caller = NoCaller
    /\ other = NoOther
    /\ connectedItems = <<>>
    /\ enrichedContext = Null
    /\ chat = ChatIdle

\* type = getContentType(url) (82-93, 848-859)
Classify ==
    /\ pc = "classify"
    /\ pc' = "extract"
    /\ type' = getContentTypeFromUrl(url)
    /\ UNCHANGED <<url, env, caller, other, aiVars, attempt, lastError, result, requests, outcomes, errors, waits, elapsed>>
    /\ UNCHANGED <<spc, response, yt, tried, outbound>>

\* videoId = extractYouTubeVideoId(url) (861-872)
ExtractId ==
    /\ pc = "extract"
    /\ pc' = "done"
    /\ yt' = YtLocals(extractYouTubeVideoId(url))
    /\ UNCHANGED <<url, type, env, caller, other, aiVars, attempt, lastError, result, requests, outcomes, errors, waits, elapsed>>
    /\ UNCHANGED <<spc, response, tried, outbound>>

UrlNext == Classify \/ ExtractId

UrlSpec == UrlInit /\ [][UrlNext]_vars

----------------------------------------------------------------------------
(* buildEnrichedContext applied to the items of a bounded set *)

\* a connected item (route.ts 10-17); the metadata is an object with
\* highlights, or absent
ConnectedItem(title, content, scrapedContent, hasMetadata) ==
    [type |-> "youtube", title |-> title, content |-> content,
     scrapedContent |-> scrapedContent, hasMetadata |-> hasMetadata]

\* items with a scraped text, with none (absent or empty), with blanks for
\* one, with and without a content of their own
Items ==
    { ConnectedItem(L("A Video"), L("a note"), <<Tok("scraped text", 900)>>, FALSE),
      ConnectedItem(L("A Link"), L("a note"), Undefined, FALSE),
      ConnectedItem(L("A Link"), L("a note"), Empty, TRUE),
      ConnectedItem(L("An Empty Card"), Empty, Undefined, FALSE),
      ConnectedItem(L("A Video"), Empty, W(2), TRUE),
      ConnectedItem(L("A Video"), Empty, <<Tok("scraped text", 900)>>, TRUE) }

MaxItems == 3

\* const hasScrapedContent = !!content
hasScrapedContent_content(item) == Truthy(item.scrapedContent) \/ Truthy(item.content)

\* const hasScrapedContent = !!item.scrapedContent (route.ts 58)
hasScrapedContent(item) == Truthy(item.scrapedContent)

\* item.scrapedContent || item.content (route.ts 57, ai-chat-window.tsx 70)
ItemContent(item) ==
    IF Truthy(item.scrapedContent) THEN item.scrapedContent ELSE item.content

ScrapedMarker == L("[SCRAPED CONTENT") \o L(" - Full transcript/content extracted]")
ScrapedCountLabel == L("Sources with scraped content: ")

\* the lines of the section of item number index + 1 (route.ts 54-92)
ContextSection(item, index) ==
    << L("--- Source ") \o NumStr(index + 1) \o L(": ") \o item.title
           \o L(" (") \o L(item.type) \o L(") ---") >>
    \o (IF Truthy(ItemContent(item))
        THEN (IF hasScrapedContent(item) THEN <<ScrapedMarker>> ELSE <<>>)
                 \o << L("Content: ") \o ItemContent(item) >>
        ELSE <<>>)
    \o (IF item.hasMetadata /\ hasScrapedContent(item)
        THEN << L("Key Highlights: a, b") >>
        ELSE <<>>)

\* connectedItems.filter(item => item.scrapedContent).length (route.ts 96)
scrapedCount(items) == Cardinality({i \in DOMAIN items : Truthy(items[i].scrapedContent)})

\* the lines of the summary (route.ts 99-106)
ContextSummary(items) ==
    << L("--- Content Summary ---"),
       L("Total connected sources: ") \o NumStr(Len(items)),
       ScrapedCountLabel \o NumStr(scrapedCount(items)),
       L("Sources with basic content: ") \o NumStr(Len(items) - scrapedCount(items)) >>
    \o (IF scrapedCount(items) > 0
        THEN << L("Note: ") \o NumStr(scrapedCount(items))
                    \o L(" source(s) have full scraped content (transcripts, full text) which provides richer context for analysis.") >>
        ELSE <<>>)

\* buildEnrichedContext (route.ts 48-111): '' for no items, else the sections
\* in the order of the items, and the summary after them
buildEnrichedContext(items) ==
    IF Len(items) = 0 THEN [sections |-> <<>>, summary |-> <<>>]
    ELSE [sections |-> [i \in DOMAIN items |-> ContextSection(items[i], i - 1)],
          summary |-> ContextSummary(items)]

\* the items as generateScriptFromContext sends them (ai-chat-window.tsx 66-77)
EnhancedItem(item) ==
    [type |-> item.type, title |-> item.title, content |-> ItemContent(item),
     scrapedContent |-> item.scrapedContent, hasMetadata |-> item.hasMetadata,
     hasScrapedContent |-> Truthy(item.scrapedContent),
     contentLength |-> StrLen(ItemContent(item))]

ItemLists == UNION {[1..n -> Items] : n \in 0..MaxItems}

\* the whiteboard holds the connected items; nothing has been sent
ContextInit ==
    /\ connectedItems \in ItemLists
    /\ enrichedContext = Null
    /\ chat = ChatIdle
    /\ url = UrlEmpty
    /\ type = ""
    /\ env \in [YOUTUBE_API_KEY : {FALSE}]
    /\ pc = "client"
    /\ attempt = 1
    /\ lastError = Null
    /\ result = NoResult
    /\ requests = 0
    /\ outcomes = <<>>
    /\ errors = <<>>
    /\ waits = <<>>
    /\ elapsed = 0
    /\ spc = "idle"
    /\ response = NoResponse
    /\ yt = YtIdle
    /\ tried = <<>>
    /\ outbound = 0
    /\ caller = NoCaller
    /\ other = NoOther

\* generateScriptFromContext maps the items and posts them
generateScriptFromContext ==
    /\ pc = "client"
    /\ pc' = "posted"
    /\ connectedItems' = [i \in DOMAIN connectedItems |-> EnhancedItem(connectedItems[i])]
    /\ UNCHANGED <<enrichedContext, chat, url, type, env, caller, other, attempt, lastError, result,
                   requests, outcomes, errors, waits, elapsed, handlerVars>>

\* the route builds the context of the prompt from the items it was sent
BuildContext ==
    /\ pc = "posted"
    /\ pc' = "built"
    /\ enrichedContext' = buildEnrichedContext(connectedItems)
    /\ UNCHANGED <<connectedItems, chat, url, type, env, caller, other, attempt, lastError, result,
                   requests, outcomes, errors, waits, elapsed, handlerVars>>

ContextNext == generateScriptFromContext \/ BuildContext

ContextSpec == ContextInit /\ [][ContextNext]_vars

----------------------------------------------------------------------------
(* AiChatWindow: the form, handleSendMessage and the requests it awaits *)

\* what the user types into the textarea
ChatInputs == {Empty, W(1), L("hi"), L("and then?")}

\* the messages the model follows
MaxMessages == 5

\* the answer shown when the request failed (238-241)
ChatErrorText == L("Sorry, I couldn't process that request. Please make sure the Google AI API key is configured and try again.")

\* the script of an answer to a prompt
ScriptFor(prompt) == L("script for: ") \o prompt

\* handleSendMessage up to its await (187-209): nothing for a blank input,
\* else the message is appended, the input cleared, isLoading set and the
\* request sent
handleSendMessage(c) ==
    IF ~Truthy(Trim(c.input)) THEN c
    ELSE [messages |-> Append(c.messages, [role |-> "user", content |-> c.input]),
          input |-> Empty,
          isLoading |-> TRUE,
          inFlight |-> Append(c.inFlight, c.input)]

\* handleSendMessage after its await, for the request at position i
\* (211-245): the answer or the apology is appended, and finally isLoading
\* is cleared
RequestSettled(c, i, ok) ==
    [messages |-> Append(c.messages,
                         [role |-> "assistant",
                          content |-> IF ok THEN ScriptFor(c.inFlight[i]) ELSE ChatErrorText]),
     input |-> c.input,
     isLoading |-> FALSE,
     inFlight |-> SubSeq(c.inFlight, 1, i - 1) \o SubSeq(c.inFlight, i + 1, Len(c.inFlight))]

\* whether the model follows one more submission
ChatRoom(c) == Len(c.messages) < MaxMessages

\* onChange of the textarea (364): the textarea is never disabled
SetInput ==
    /\ \E t \in ChatInputs : t # chat.input /\ chat' = [chat EXCEPT !.input = t]
    /\ UNCHANGED <<connectedItems, enrichedContext, url, type, env, caller, other,
                   clientVars, handlerVars>>

\* the send button (378), disabled while isLoading or for a blank input
ClickSend ==
    /\ ~(chat.isLoading \/ ~Truthy(Trim(chat.input)))
    /\ ChatRoom(chat)
    /\ chat' = handleSendMessage(chat)
    /\ UNCHANGED <<connectedItems, enrichedContext, url, type, env, caller, other,
                   clientVars, handlerVars>>

\* Enter without Shift in the textarea (371-376)
PressEnter ==
    /\ ChatRoom(chat)
    /\ chat' = handleSendMessage(chat)
    /\ UNCHANGED <<connectedItems, enrichedContext, url, type, env, caller, other,
                   clientVars, handlerVars>>

\* a request to /api/generate-script is answered, or fails
GenerateSettles ==
    /\ \E i \in DOMAIN chat.inFlight, ok \in BOOLEAN : chat' = RequestSettled(chat, i, ok)
    /\ UNCHANGED <<connectedItems, enrichedContext, url, type, env, caller, other,
                   clientVars, handlerVars>>

\* the chat window is mounted
ChatInit ==
    /\ chat = ChatIdle
    /\ connectedItems = <<>>
    /\ enrichedContext = Null
    /\ url = UrlEmpty
    /\ type = ""
    /\ env \in [YOUTUBE_API_KEY : {FALSE}]
    /\ pc = "idle"
    /\ attempt = 1
    /\ lastError = Null
    /\ result = NoResult
    /\ requests = 0
    /\ outcomes = <<>>
    /\ errors = <<>>
    /\ waits = <<>>
    /\ elapsed = 0
    /\ spc = "idle"
    /\ response = NoResponse
    /\ yt = YtIdle
    /\ tried = <<>>
    /\ outbound = 0
    /\ caller = NoCaller
    /\ other = NoOther

ChatNext == SetInput \/ ClickSend \/ PressEnter \/ GenerateSettles

ChatSpec == ChatInit /\ [][ChatNext]_vars

----------------------------------------------------------------------------
(* Properties *)

\* the route has answered and scrapeContent has taken the answer
Answered == spc = "responded" /\ pc # "await"

\* the entries of `tried` for a strategy
Entries(name) == {i \in DOMAIN tried : tried[i].s = name}
HasTried(name) == Entries(name) # {}

\* a success=true result carries content of at least 50 characters, trimmed
GoodSuccess(r) ==
    r.success => /\ "content" \in DOMAIN r
                 /\ StrLen(Trim(r.content)) >= 50

\* a success=false result carries an error and neither content nor title
GoodFailure(r) ==
    ~r.success => /\ "error" \in DOMAIN r
                  /\ Truthy(r.error)
                  /\ "content" \notin DOMAIN r
                  /\ "title" \notin DOMAIN r

\* C1: every success=true result of the /api/scrape chains, as the route sends
\* it and as scrapeContent returns it, has content whose trimmed length is at
\* least 50 characters.
C1_SuccessHasContent ==
    /\ spc = "responded" => GoodSuccess(response.body)
    /\ pc = "returned" => GoodSuccess(result)

\* a YouTube result is returned whose sections were too short as they stood
C1_Witness ==
    /\ pc = "returned"
    /\ result.success
    /\ result.metadata.type = "video"
    /\ StrLen(Trim(result.content)) >= 50
    /\ StrLen(Sections(yt)) < 50

\* C2: every success=false result, of the route or of scrapeContent, has a
\* non-empty error string and carries neither content nor title.
C2_FailureHasOnlyError ==
    /\ spc = "responded" => GoodFailure(response.body)
    /\ pc = "returned" => GoodFailure(result)

\* the acceptance gate of the YouTube chain has refused a content, and the
\* failure has been returned
C2_Witness ==
    /\ pc = "returned"
    /\ ~result.success
    /\ result.error = InsufficientMessage
    /\ StrLen(finalContent(yt)) >= 200

\* C3: for an empty URL no request is sent to a remote endpoint, the request to
\* /api/scrape is sent at most once and there is no backoff wait.
C3_EmptyUrlNotRetried ==
    ~Truthy(url) => /\ outbound = 0
                    /\ requests <= 1
                    /\ waits = <<>>

\* C4: at most 3 requests are sent to /api/scrape, and when the k-th has been
\* sent the k-1 before it have all failed.
C4_AtMostThreeRequests ==
    /\ requests <= 3
    /\ Len(outcomes) >= requests - 1
    /\ \A k \in 1..(requests - 1) : outcomes[k] = "failed"

\* the third request is in flight
C4_Witness ==
    /\ requests = 3
    /\ pc = "await"
    /\ outcomes = <<"failed", "failed">>

\* C5: the waits are 1000 ms after the first failed attempt and 2000 ms after
\* the second, each before the next request is sent; there is none after the
\* third.
C5_BackoffWaits ==
    /\ waits = SubSeq(<<1000, 2000>>, 1, Min(Len(errors), 2))
    /\ requests <= Len(waits) + 1
    /\ \A k \in DOMAIN waits : waits[k] >= 1000 /\ waits[k] <= 5000

\* three attempts have failed and the call has returned
C5_Witness ==
    /\ pc = "returned"
    /\ Len(errors) = 3
    /\ waits = <<1000, 2000>>

\* C6: when all 3 attempts have failed, the result is success=false and its
\* error is "Scraping failed after 3 attempts: " followed by the message of the
\* error of the third attempt.
C6_LastErrorReported ==
    (pc = "returned" /\ Len(errors) = 3) =>
        /\ ~result.success
        /\ Includes(result.error, L("3"))
        /\ result.error = L("Scraping failed after ") \o L("3") \o L(" attempts: ") \o errors[3]

\* the third attempt failed with an error other than those before it
C6_Witness ==
    /\ pc = "returned"
    /\ Len(errors) = 3
    /\ errors[3] # errors[1]
    /\ errors[3] # errors[2]
    /\ Includes(result.error, errors[3])

\* C7: once a 2xx response of the route has been taken, scrapeContent has
\* returned its body unchanged and has sent no further request, whatever the
\* body says.
C7_OkResponseEnds ==
    (Answered /\ response.status >= 200 /\ response.status <= 299) =>
        /\ pc = "returned"
        /\ result = response.body
        /\ Last(outcomes) = "ok"
        /\ requests = Len(outcomes)

\* a 2xx response with an extraction-insufficiency body has been returned after
\* one request
C7_Witness ==
    /\ pc = "returned"
    /\ spc = "responded"
    /\ response.status = 200
    /\ requests = 1
    /\ result = Failure(ArticleTooShortMessage)

\* the last fetch of the article chain failed at the transport
ArticleTransportError ==
    /\ tried # <<>>
    /\ Last(tried).s = "article"
    /\ Truthy(Last(tried).err)

\* C8 as stated: after a transport error of the article fetch scrapeContent
\* returns only when the 3 attempts are used up, with the attempt count and the
\* cause in the message.
C8_ArticleErrorRetried ==
    (pc = "returned" /\ spc = "responded" /\ ArticleTransportError) =>
        /\ requests = 3
        /\ Includes(result.error, L("3"))

\* C8 amended: a transport error of the article fetch is answered by the route
\* with a 2xx response whose body is the chain's own success=false result;
\* scrapeContent returns that body after this request, without a retry and
\* without an attempt count in the message.
C8_ArticleErrorNotRetried ==
    (Answered /\ ArticleTransportError) =>
        /\ pc = "returned"
        /\ result = response.body
        /\ ~result.success
        /\ ~Includes(result.error, L("Scraping failed after "))
        /\ requests = Len(outcomes)
        /\ waits = SubSeq(<<1000, 2000>>, 1, requests - 1)

\* the article fetch timed out at the first request and the call has returned
C8_Witness ==
    /\ pc = "returned"
    /\ requests = 1
    /\ ArticleTransportError
    /\ Last(tried).err = TimeoutError
    /\ ~result.success

\* C9: when the page scrape leaves a weak, non-empty title and oEmbed answers
\* with a title, the title of the result is the oEmbed title.
C9_OembedTitleWins ==
    \A i \in Entries("page"), j \in Entries("oembed") :
        (/\ spc = "responded"
         /\ Truthy(tried[i].title)
         /\ looksWeakTitle(tried[i].title)
         /\ Truthy(tried[j].title))
        => /\ response.body.success
           /\ response.body.title = tried[j].title

\* the rank of a strategy in the order of the chain
Rank(name) ==
    CASE name = "import" -> 1
      [] name = "transcript" -> 1
      [] name = "page" -> 2
      [] name = "oembed" -> 3
      [] name = "api" -> 4
      [] OTHER -> 0

\* the YouTube chain is through with a request that has a video id
YtDone == spc = "responded" /\ yt.videoId # Null

\* C10: the strategies are attempted in the order transcript, page, oEmbed,
\* API, each at most once (the transcript once per language hint, in the order
\* of the hints); no error thrown by a strategy becomes the result of the
\* chain; and when the chain is through, the page has been fetched, oEmbed has
\* been asked if the title after the page was weak, and the API has been called
\* if the key is set and the title or the description was still empty.
C10_StrategyOrder ==
    /\ \A i, j \in DOMAIN tried : i < j => Rank(tried[i].s) <= Rank(tried[j].s)
    /\ \A name \in {"import", "page", "oembed", "api"} : Cardinality(Entries(name)) <= 1
    /\ LET hints == [k \in 1..Cardinality(Entries("transcript")) |-> transcriptAttempts[k]]
       IN \A i \in Entries("transcript") :
              /\ Cardinality(Entries("transcript")) <= Len(transcriptAttempts)
              /\ tried[i].lang = hints[i]
    /\ YtDone =>
          /\ \A i \in DOMAIN tried :
                 Truthy(tried[i].err) => response.body # YtCatch(tried[i].err)
          /\ HasTried("page")
          /\ \A i \in Entries("page") :
                 looksWeakTitle(tried[i].title) => HasTried("oembed")
          /\ ~HasTried("api") => ~ApiWanted(yt)

\* every strategy before the API has thrown, and the API has been called
C10_Witness ==
    /\ YtDone
    /\ HasTried("api")
    /\ HasTried("oembed")
    /\ \A i \in DOMAIN tried : tried[i].s # "api" => Truthy(tried[i].err)
    /\ Cardinality(Entries("transcript")) = 3
    /\ response.body.success

\* the labels of metadata.sources of a result
SourcesOf(r) == {r.metadata.sources[i] : i \in DOMAIN r.metadata.sources}

\* the sections the chain assembled were under 200 characters long
FallbackSubstituted == MinimalContent(Sections(yt))

\* C11: when the assembled content is under 200 characters the result is
\* success=true, its content is the analysis block and its sources name
\* 'Enhanced Analysis'; and a result names 'Enhanced Analysis' exactly when the
\* block was substituted.
C11_FallbackSucceeds ==
    YtDone =>
        /\ FallbackSubstituted =>
              /\ response.body.success
              /\ response.body.content = AnalysisBlock(yt)
              /\ "Enhanced Analysis" \in SourcesOf(response.body)
        /\ response.body.success =>
              ("Enhanced Analysis" \in SourcesOf(response.body) <=> FallbackSubstituted)

\* a weak title as the specification words it: empty, shorter than 3
\* characters, or digits with an optional k, K, m or M after them
WeakAsStated(t) ==
    \/ t = Empty
    \/ StrLen(t) < 3
    \/ t \in {L("12K"), L("1234"), L("99")}

\* C12: oEmbed is requested only after a page scrape that left a weak title,
\* it is being requested only while the title is weak, and once the chain is
\* through it has been requested whenever the page scrape left a weak title.
C12_OembedIffWeakTitle ==
    /\ \A j \in Entries("oembed") :
           \E i \in Entries("page") : i < j /\ WeakAsStated(tried[i].title)
    /\ spc = "yt_oembed" => WeakAsStated(yt.videoTitle)
    /\ YtDone => \A i \in Entries("page") :
                    WeakAsStated(tried[i].title) <=> HasTried("oembed")

\* the page scrape left a title of two characters and oEmbed was asked
C12_Witness ==
    /\ YtDone
    /\ HasTried("oembed")
    /\ \E i \in Entries("page") : tried[i].title = L("Hi")

\* the condition of the platform API as the specification words it
ApiAsStated(l) ==
    env.YOUTUBE_API_KEY /\ (l.videoTitle = Empty \/ l.videoDescription = Empty)

\* the locals the platform API fills only when they are empty
ApiFilled == {"videoTitle", "videoDescription", "channelName", "viewCount"}

\* C13: the platform API is being called only with the key set and the title
\* or the description empty; a chain that is through without the call did not
\* meet that condition; and the step of the call leaves every title,
\* description, channel name and view count that was non-empty as it was.
C13_ApiOnlyFillsEmpty ==
    /\ [](spc = "yt_api" => ApiAsStated(yt))
    /\ []((YtDone /\ ~HasTried("api")) => ~ApiAsStated(yt))
    /\ [][(spc = "yt_api" /\ spc' = "responded") =>
              /\ HasTried("api")'
              /\ \A f \in ApiFilled : yt[f] # Empty => yt'[f] = yt[f]]_vars

\* the API was called with the title "12K" in place and gave the description
C13_Witness ==
    /\ YtDone
    /\ HasTried("api")
    /\ yt.videoTitle = WeakTitle
    /\ StrLen(yt.videoDescription) = 300
    /\ yt.channelName = L("API Channel")

\* C14: the transcript calls carry the hints en, ar, none in this order; a call
\* is followed by another only if it threw or was answered with no segment,
\* and the strategy is left only after a call answered with segments or after
\* the third call; a result has the TRANSCRIPT section only if the cleaned
\* transcript is longer than 100 characters, and its hasTranscript says
\* whether it is.
C14_TranscriptHints ==
    /\ \A i \in Entries("transcript") :
           /\ i <= Len(transcriptAttempts)
           /\ tried[i].lang = <<"en", "ar", "">>[i]
           /\ \A j \in Entries("transcript") : i < j => tried[i].segments = 0
    /\ (HasTried("transcript") /\ spc # "yt_transcript") =>
           LET n == Cardinality(Entries("transcript"))
           IN tried[n].segments > 0 \/ n = 3
    /\ (YtDone /\ response.body.success) =>
           /\ Includes(response.body.content, L("TRANSCRIPT:")) => StrLen(yt.transcript) > 100
           /\ response.body.metadata.hasTranscript <=> StrLen(yt.transcript) > 100

\* en threw, ar was answered with no segment, the call without a hint gave a
\* transcript of 299 characters, which is in the content
C14_Witness ==
    /\ YtDone
    /\ Cardinality(Entries("transcript")) = 3
    /\ Truthy(tried[1].err)
    /\ tried[2].err = Empty
    /\ tried[3].segments > 0
    /\ StrLen(yt.transcript) = 299
    /\ Includes(response.body.content, L("TRANSCRIPT:"))
    /\ response.body.metadata.hasTranscript

\* the headers of the five sections, in the order of the specification
Headers == <<L("TRANSCRIPT:"), L("TITLE:"), L("DESCRIPTION:"), L("CHANNEL:"), L("Views:")>>

\* where a header stands in a content (0: nowhere)
HeaderAt(c, h) ==
    LET at == {i \in DOMAIN c : <<c[i]>> = h}
    IN IF at = {} THEN 0 ELSE CHOOSE i \in at : \A j \in at : i <= j

\* the sections of a content, by the index of their header in Headers
SectionsIn(c) == {k \in DOMAIN Headers : HeaderAt(c, Headers[k]) > 0}

\* the headers of a content stand in the order of Headers
InOrder(c) ==
    \A j, k \in SectionsIn(c) : j < k => HeaderAt(c, Headers[j]) < HeaderAt(c, Headers[k])

\* a result whose content is the assembled sections
SectionsResult == YtDone /\ response.body.success /\ ~FallbackSubstituted

\* C15 as stated: the sections stand in the order transcript, title,
\* description, channel, view count, and sources has one label for every
\* section of the content.
C15_EverySectionLabelled ==
    SectionsResult =>
        /\ InOrder(response.body.content)
        /\ Len(response.body.metadata.sources)
               = Cardinality(SectionsIn(response.body.content))

\* C15 amended: the sections stand in the order transcript, title, description,
\* channel, view count; sources has 'Video Transcript' exactly when the
\* transcript section is there and 'Video Description' exactly when the
\* description section is there, in this order, and no label for the title,
\* the channel or the view count.
C15_TwoSectionsLabelled ==
    SectionsResult =>
        /\ InOrder(response.body.content)
        /\ response.body.metadata.sources =
               (IF 1 \in SectionsIn(response.body.content)
                THEN <<"Video Transcript">> ELSE <<>>)
               \o (IF 3 \in SectionsIn(response.body.content)
                   THEN <<"Video Description">> ELSE <<>>)

\* a content with all five sections, and two labels in sources
C15_Witness ==
    /\ SectionsResult
    /\ SectionsIn(response.body.content) = 1..5
    /\ Len(response.body.metadata.sources) = 2

\* the article chain has answered
ArticleDone == spc = "responded" /\ tried # <<>> /\ Last(tried).s = "article"

\* the content the article chain extracted from the document it fetched
Extracted == ContentLoop(Last(tried).doc.cands, Last(tried).doc.ps, 1, Empty)

\* no request of the chain was answered with an error
NoFetchFailed == tried # <<>> /\ \A i \in DOMAIN tried : tried[i].err = Empty

\* the fields the strategies of the chain have filled
Contributed ==
    IF ArticleDone THEN {f \in {"title"} : Truthy(Last(tried).title)}
    ELSE {f \in {"transcript", "videoTitle", "videoDescription", "channelName", "viewCount"} :
            Truthy(yt[f])}

\* C16 as stated: a chain none of whose requests failed and one of whose
\* strategies filled a field answers success=true.
C16_ContributionMeansSuccess ==
    (spc = "responded" /\ NoFetchFailed /\ Contributed # {}) => response.body.success

\* C16 amended: a success=false result has one of these causes: no URL; no video
\* id in the URL; a YouTube content that trims to under 50 characters; an error
\* raised while the YouTube result is built; a failed fetch of the article; an
\* article content under 100 characters, whatever else was extracted.  A
\* YouTube chain to which no strategy contributed anything answers
\* success=true.
C16_FailureCauses ==
    /\ (spc = "responded" /\ ~response.body.success) =>
          \/ url = Empty /\ response.body.error = L("URL is required")
          \/ tried = <<>> /\ yt.videoId = Null
                /\ response.body.error = L("Invalid YouTube URL")
          \/ YtDone /\ StrLen(Trim(finalContent(yt))) < 50
                /\ response.body.error = InsufficientMessage
          \/ YtDone /\ yt.videoDescription = Undefined
                /\ Includes(response.body.error, ReadLengthError)
          \/ ArticleDone /\ Truthy(Last(tried).err)
                /\ response.body = ArticleCatch(Last(tried).err)
          \/ ArticleDone /\ Last(tried).err = Empty /\ StrLen(Extracted) < 100
                /\ response.body.error = ArticleTooShortMessage
    /\ (YtDone /\ Contributed = {}) => response.body.success

\* the article was fetched and its title extracted, and the chain answered
\* success=false for a content of 30 characters
C16_Witness ==
    /\ ArticleDone
    /\ NoFetchFailed
    /\ Last(tried).title = L("Home")
    /\ StrLen(Extracted) = 30
    /\ ~response.body.success

\* the error the outer catch block was entered with
Thrown == {i \in DOMAIN tried : tried[i].s = "thrown"}

\* the message for an error text as the specification words the choice: the
\* markers in the order transcript, private/unavailable, blocked/restricted
Classified(msg) ==
    LET has(word) == \E i \in DOMAIN msg : word \in WordsIn(msg[i].t)
    IN CASE has("transcript") ->
              L("This video does not have transcripts available. Try a different video with captions/subtitles enabled.")
         [] ~has("transcript") /\ (has("private") \/ has("unavailable")) ->
              L("This video is private or unavailable. Please check the URL and try a public video.")
         [] ~has("transcript") /\ ~has("private") /\ ~has("unavailable")
                /\ (has("blocked") \/ has("restricted")) ->
              L("Access to this video is restricted. Try a different video or check regional availability.")
         [] OTHER ->
              L("Enhanced YouTube scraping failed:") \o W(1) \o msg
                  \o L(". Please try a different video.")

\* the errors the strategies of the chain threw, in order
ThrownByStrategies == {i \in DOMAIN tried : tried[i].s # "thrown" /\ Truthy(tried[i].err)}

C18_ArticleGate ==
    ArticleDone =>
        IF Last(tried).err = Empty
        THEN /\ StrLen(Extracted) < 100 <=>
                    response.body = Failure(ArticleTooShortMessage)
             /\ StrLen(Extracted) >= 100 <=> response.body.success
        ELSE /\ ~response.body.success
             /\ response.body.error # ArticleTooShortMessage

\* a document whose only text is a paragraph of 101 characters has succeeded
C18_Witness ==
    /\ ArticleDone
    /\ Last(tried).doc.cands = NoMatch6
    /\ StrLen(Extracted) = 101
    /\ response.body.success

\* the cleaned text of candidate k of a document, in the order JSON-LD
\* articleBody, "text" field, <article>, <main>, content-class div,
\* article-class div, aggregated <p>; Null for a pattern that does not match
Candidate(doc, k) ==
    IF k <= 6
    THEN IF doc.cands[k] = Null THEN Null ELSE CleanBlock(doc.cands[k])
    ELSE IF doc.ps = <<>> THEN Null ELSE JoinParagraphs(doc.ps)

\* the candidates of a document that are longer than 200 characters
LongCandidates(doc) ==
    {k \in 1..7 : Candidate(doc, k) # Null /\ StrLen(Candidate(doc, k)) > 200}

\* C19: when a candidate of the fetched document is longer than 200
\* characters, the content of the result is that of the first such candidate
\* in the order of the patterns, and the text of no later candidate is in it.
C19_FirstLongCandidate ==
    (ArticleDone /\ Last(tried).err = Empty /\ LongCandidates(Last(tried).doc) # {}) =>
        LET doc == Last(tried).doc
            first == CHOOSE k \in LongCandidates(doc) : \A j \in LongCandidates(doc) : k <= j
        IN /\ response.body.success
           /\ Includes(response.body.content,
                       L("CONTENT:") \o W(1) \o Candidate(doc, first))
           /\ \A j \in (first + 1)..7 :
                  (Candidate(doc, j) # Null /\ Candidate(doc, j) # Candidate(doc, first))
                      => ~Includes(response.body.content, Candidate(doc, j))

\* a document with a short second candidate and three long ones after it has
\* given the third candidate as content
C19_Witness ==
    /\ ArticleDone
    /\ LongCandidates(Last(tried).doc) = {3, 5, 7}
    /\ Candidate(Last(tried).doc, 2) # Null
    /\ Includes(response.body.content, <<Tok("article text", 250)>>)

\* the non-2xx status the article URL answered with, if it did
AnsweredStatus ==
    {st \in ArticleStatuses :
        Last(tried).err = L("HTTP ") \o NumStr(st) \o L(": ") \o StatusText(st)}

\* C20 as stated: after a non-2xx answer of the article URL the result is
\* success=false, without content, and its error carries the status.
C20_StatusInError ==
    ArticleDone => \A st \in AnsweredStatus :
        /\ ~response.body.success
        /\ "content" \notin DOMAIN response.body
        /\ Includes(response.body.error, NumStr(st))

\* C20 amended: after a non-2xx answer of the article URL the result is
\* success=false without content; its error is 'Article scraping failed: HTTP
\* <status>: <status text>' for every status but 403, and for 403 the 'Access to
\* this website is restricted' message, which does not carry the status.
C20_StatusInErrorBut403 ==
    ArticleDone => \A st \in AnsweredStatus :
        /\ ~response.body.success
        /\ "content" \notin DOMAIN response.body
        /\ st # 403 =>
              response.body.error =
                  L("Article scraping failed:") \o W(1) \o L("HTTP ") \o NumStr(st)
                      \o L(": ") \o StatusText(st)
        /\ st = 403 =>
              /\ response.body.error = L("Access to this website is restricted. Try a different article from a more accessible source.")
              /\ ~Includes(response.body.error, NumStr(st))

\* the article URL answered 403 and the chain has answered
C20_Witness ==
    /\ ArticleDone
    /\ AnsweredStatus = {403}
    /\ ~response.body.success

\* C21: the title a chain extracts from a fetched document is empty or longer
\* than 5 characters: a capture of 5 characters or fewer is not kept.
C21_ShortTitleDropped ==
    \A i \in Entries("page") \cup Entries("article") :
        tried[i].err = Empty =>
            tried[i].title = Empty \/ StrLen(tried[i].title) > 5

\* C22: for a URL with type tiktok or instagram the route answers without a
\* request to a remote endpoint, with success=true, metadata.type 'social', the
\* placeholder text around the URL as content and a note that recommends
\* manual review.
C22_SocialPlaceholder ==
    (spc = "responded" /\ url # Empty /\ type \in {"tiktok", "instagram"}) =>
        /\ outbound = 0
        /\ tried = <<>>
        /\ response.status = 200
        /\ response.body.success
        /\ response.body.metadata.type = "social"
        /\ response.body.metadata.url = url
        /\ response.body.content =
               IF type = "tiktok"
               THEN L("TikTok video analysis from: ") \o url \o W(2) \o L(TikTokTail)
               ELSE L("Instagram post analysis from: ") \o url \o W(2) \o L(InstaTail)
        /\ response.body.metadata.note \in
               {"Visual/audio content - manual review recommended",
                "Visual content - manual review recommended"}

\* a YouTube URL sent with type tiktok has been answered with the placeholder
C22_Witness ==
    /\ pc = "returned"
    /\ url = UrlWatch
    /\ type = "tiktok"
    /\ result.success
    /\ result.metadata.platform = "TikTok"
    /\ outbound = 0

\* the class of a hostname: youtube for one that contains youtube.com or
\* youtu.be, else tiktok for tiktok.com, else instagram for instagram.com, else
\* url
HostClass(h) ==
    IF Includes(h, Cs(<<"y","o","u","t","u","b","e",".","c","o","m">>))
        \/ Includes(h, Cs(<<"y","o","u","t","u",".","b","e">>))
    THEN "youtube"
    ELSE IF Includes(h, Cs(<<"t","i","k","t","o","k",".","c","o","m">>)) THEN "tiktok"
    ELSE IF Includes(h, Cs(<<"i","n","s","t","a","g","r","a","m",".","c","o","m">>))
    THEN "instagram"
    ELSE "url"

\* C23: the class of a URL is the class of its hostname, whatever its path and
\* query hold.
C23_ClassByHostname ==
    pc \in {"extract", "done"} => type = HostClass(Hostname(url))

\* the id of the examples of the specification
ExampleId == Cs(<<"d","Q","w","4","w","9","W","g","X","c","Q">>)

\* the URLs of the three forms with that id: watch?v=<id>&t=30s and embed/<id>
\* on a youtube.com host, <id> on youtu.be
ExampleUrls ==
    {o \o Cs(<<"/","w","a","t","c","h","?","v","=">>) \o ExampleId
         \o Cs(<<"&","t","=","3","0","s">>) :
       o \in {h \in UrlOrigins : HostClass(Hostname(h)) = "youtube" /\ Len(Hostname(h)) > 8}}
    \cup {o \o Cs(<<"/","e","m","b","e","d","/">>) \o ExampleId :
            o \in {h \in UrlOrigins : HostClass(Hostname(h)) = "youtube" /\ Len(Hostname(h)) > 8}}
    \cup {o \o Cs(<<"/">>) \o ExampleId :
            o \in {h \in UrlOrigins : HostClass(Hostname(h)) = "youtube" /\ Len(Hostname(h)) = 8}}

\* C24: the video id of a URL on a YouTube host is the text after watch?v=,
\* youtu.be/ or embed/ up to the first &, ?, # or newline, and a URL on another
\* host has none.
C24_IdOnlyForYouTube ==
    pc = "done" =>
        /\ HostClass(Hostname(url)) # "youtube" => yt.videoId = Null
        /\ url \in ExampleUrls => yt.videoId = ExampleId

\* C28 as stated: a call of scrapeContent never takes more than 90 000 ms.
C28_Within90s == elapsed <= 90000

\* C28 amended: a call of scrapeContent never takes more than 93 000 ms: three
\* attempts of at most 30 000 ms each and the waits of 1000 ms and 2000 ms
\* between them.
C28_Within93s ==
    /\ elapsed <= 3 * 30000 + 1000 + 2000
    /\ pc = "returned" => elapsed <= 30000 * Len(outcomes) + 1000 + 2000

\* all three attempts ran into the abort signal and the call has returned
C28_Witness ==
    /\ pc = "returned"
    /\ errors = <<TimeoutError, TimeoutError, TimeoutError>>
    /\ elapsed = 93000

\* whether the credential k is configured
Configured(k) == k \in DOMAIN env /\ env[k]

\* an entry point of the library has returned
EntryDone == caller.at = "done"

\* the value the entry point returned is the one its last call of
\* scrapeContent returned
FromScrapeContent ==
    /\ caller.calls # <<>>
    /\ pc = "returned"
    /\ caller.out = result

\* the value the entry point returned was built from an answer of the
\* transcription service or of the custom scraper
FromAdvanced ==
    /\ caller.out.success
    /\ \/ /\ "assemblyai" \in caller.asked
          /\ caller.out.title = L("YouTube Video Transcript")
       \/ /\ "custom" \in caller.asked
          /\ \E d \in CustomAnswers : caller.out = CustomResult(url, d)

\* C25: with a credential absent the strategy that needs it is skipped: no
\* request goes to the transcription service without ASSEMBLYAI_API_KEY, none
\* to the custom scraper without CUSTOM_SCRAPER_API_KEY and
\* CUSTOM_SCRAPER_API_URL, none to the platform API without YOUTUBE_API_KEY;
\* and an entry point that returns with a credential absent returns what the
\* remaining strategies produced (a result of scrapeContent, or one built from
\* the answer of a configured service), or the rejection of a URL without a
\* video id, never an error of its own about the absence
C25_MissingCredentialSkips ==
    /\ ~Configured("ASSEMBLYAI_API_KEY") => "assemblyai" \notin caller.asked
    /\ ~(Configured("CUSTOM_SCRAPER_API_KEY") /\ Configured("CUSTOM_SCRAPER_API_URL"))
          => "custom" \notin caller.asked
    /\ ~Configured("YOUTUBE_API_KEY") => ~HasTried("api")
    /\ EntryDone =>
          \/ FromScrapeContent
          \/ FromAdvanced
          \/ /\ caller.fn = "scrapeWithAssemblyAI"
             /\ LibExtractYouTubeVideoId(url) = Null
             /\ caller.out = Failure(L("Invalid YouTube URL"))

\* scrapeWithAssemblyAI called without its key has returned the success of the
\* regular scraping, and nothing was asked of the transcription service
C25_Witness ==
    /\ caller.fn = "scrapeWithAssemblyAI"
    /\ ~env.ASSEMBLYAI_API_KEY
    /\ EntryDone
    /\ caller.asked = {}
    /\ caller.calls = <<"youtube">>
    /\ caller.out.success
    /\ HasTried("transcript")

\* C26: scrapeContentEnhanced always returns a value, and unless that value
\* was built from the answer of an advanced method it is the value returned
\* by a call of scrapeContent for the same URL
C26_EnhancedFallsBack ==
    (caller.fn = "scrapeContentEnhanced" /\ EntryDone) =>
        /\ caller.out # NoResult
        /\ ~FromAdvanced => FromScrapeContent

\* scrapeContentEnhanced asked both advanced methods, both failed and so did
\* their own fallbacks, and it returned what its regular scraping returned
C26_Witness ==
    /\ caller.fn = "scrapeContentEnhanced"
    /\ EntryDone
    /\ caller.asked = {"assemblyai", "custom"}
    /\ caller.calls = <<"youtube", "youtube", "youtube">>
    /\ caller.out = result
    /\ result.success

\* both extractions of a pair have returned
BothReturned == Paired /\ pc = "returned" /\ other.pc = "returned"

\* C27: two extractions of the same URL that get the same remote responses,
\* interleaved in any way at their awaits, return the same result and end
\* with the same attempt counter and the same lastError; running one to its
\* end before the other starts is one of the interleavings, so each returns
\* what it returns when run alone
C27_Independent ==
    BothReturned =>
        /\ result = other.result
        /\ attempt = other.attempt
        /\ lastError = other.lastError

\* two extractions whose steps were interleaved (the second was started
\* before the first returned) have both returned a success at their second
\* request, after different waiting times
C27_Witness ==
    /\ BothReturned
    /\ ~other.apart
    /\ requests = 2
    /\ other.requests = 2
    /\ result.success
    /\ elapsed # other.elapsed
    /\ HasTried("page")

\* the title of a result, Undefined when it has none
TitleOf(r) == IF "title" \in DOMAIN r THEN r.title ELSE Undefined

\* metadata.type of a result, "" when it has none
MetadataTypeOf(r) == IF "metadata" \in DOMAIN r THEN r.metadata.type ELSE ""

ContextBuilt == pc = "built"

\* whether a section of the context has the marker line
Marked(section) == \E k \in DOMAIN section : Includes(section[k], L("[SCRAPED CONTENT"))

\* the line of the summary that counts the sources with scraped content
ScrapedCountLine(summary) ==
    {k \in DOMAIN summary : Includes(summary[k], ScrapedCountLabel)}

\* C30: in the context built from a list of items there is one section per
\* item, the section of an item has the marker line if and only if the item's
\* scrapedContent is a non-empty string, and the summary's line "Sources with
\* scraped content" gives the number of sections that have the marker
C30_MarkerIffScraped ==
    (ContextBuilt /\ Len(connectedItems) > 0) =>
        LET c == enrichedContext
            marked == {i \in DOMAIN c.sections : Marked(c.sections[i])}
        IN /\ Len(c.sections) = Len(connectedItems)
           /\ \A i \in DOMAIN connectedItems :
                 i \in marked <=> /\ connectedItems[i].scrapedContent # Undefined
                                  /\ StrLen(connectedItems[i].scrapedContent) > 0
           /\ \E k \in ScrapedCountLine(c.summary) :
                 c.summary[k] = ScrapedCountLabel \o NumStr(Cardinality(marked))

\* a context of three sections was built, of which the first is marked and
\* the second, of an item with empty scrapedContent and a content of its
\* own, is not
C30_Witness ==
    /\ ContextBuilt
    /\ Len(connectedItems) = 3
    /\ Marked(enrichedContext.sections[1])
    /\ ~Marked(enrichedContext.sections[2])
    /\ connectedItems[2].scrapedContent = Empty
    /\ Truthy(connectedItems[2].content)
    /\ Includes(enrichedContext.summary[3], L("2"))

\* where the handler goes for a content type: into the YouTube chain (or its
\* rejection of a URL without video id), to a placeholder, or to the article
\* chain
RoutedTo(ct) ==
    CASE ct = "youtube" ->
            \/ spc' = "yt_transcript"
            \/ spc' = "responded" /\ response'.body = ToJson(Failure(L("Invalid YouTube URL")))
      [] ct = "tiktok" ->
            spc' = "responded" /\ response'.body.metadata.platform = "TikTok"
      [] ct = "instagram" ->
            spc' = "responded" /\ response'.body.metadata.platform = "Instagram"
      [] OTHER -> spc' = "article_fetch"

\* C31: the handler, when it serves a request with a URL, dispatches on the
\* declared type whenever one is present,
\* also when the URL is of another kind, and on the class of the URL only
\* when none is declared; a declared type that is not youtube, tiktok or
\* instagram goes to the article chain
C31_DeclaredTypeWins ==
    [][(spc = "POST" /\ spc' \notin {"POST", "idle"} /\ Truthy(url)) =>
          /\ type # "" => RoutedTo(type)
          /\ type = "" => RoutedTo(getContentTypeFromUrl(url))
          /\ type \notin {"", "youtube", "tiktok", "instagram"} => spc' = "article_fetch"]_vars

\* a YouTube watch URL declared with an unknown type has been answered by the
\* article chain
C31_Witness ==
    /\ pc = "returned"
    /\ url = UrlWatch
    /\ type = "podcast"
    /\ HasTried("article")
    /\ ~HasTried("transcript")
    /\ ~HasTried("page")

\* C32: whenever the transcript passed the confidence gate (longer than 100
\* characters, 'Video Transcript' among the sources of the result), the
\* content of the result contains the text of the transcript
C32_TranscriptInContent ==
    (YtDone /\ response.body.success
        /\ TranscriptAccepted(yt)
        /\ "Video Transcript" \in SourcesOf(response.body)) =>
            Includes(response.body.content, yt.transcript)

\* C33: for every URL with an extractable video id the YouTube chain answers
\* success = true whatever the four strategies returned, so the acceptance
\* gate never answers 'Could not extract sufficient content'
C33_YouTubeAlwaysSucceeds ==
    YtDone => response.body.success

\* no pattern of extractYouTubeVideoId finds a video id in the URL
NoVideoId(u) == FirstPattern(u) = Null /\ SecondPattern(u) = Null

\* C38: a request declared as youtube whose URL holds no extractable video id
\* (a playlist or channel link) is answered success = false with the error
\* 'Invalid YouTube URL' and without any request to a remote endpoint
C38_InvalidYouTubeUrl ==
    (type = "youtube" /\ Truthy(url) /\ NoVideoId(url)) =>
        /\ outbound = 0
        /\ tried = <<>>
        /\ spc \in {"idle", "POST", "responded"}
        /\ spc = "responded" =>
              response = [status |-> 200, body |-> Failure(L("Invalid YouTube URL"))]
        /\ (pc = "returned" /\ outcomes # <<>> /\ Last(outcomes) = "ok") =>
              result = Failure(L("Invalid YouTube URL"))

\* the playlist link that the sidebar adds as a youtube item has been answered
C38_Witness ==
    /\ pc = "returned"
    /\ url = UrlPlaylist
    /\ type = "youtube"
    /\ spc = "responded"
    /\ result = Failure(L("Invalid YouTube URL"))
    /\ outbound = 0

\* the candidates of a document with at least 100 characters after cleaning
UsableCandidates(doc) ==
    {k \in 1..7 : Candidate(doc, k) # Null /\ StrLen(Candidate(doc, k)) >= 100}

\* C39: the article chain answers success = true whenever one of the content
\* patterns yields a candidate of at least 100 characters after cleaning; a
\* usable candidate of an earlier pattern is not lost to a shorter candidate
\* of a later pattern
C39_UsableCandidateKept ==
    (ArticleDone /\ Last(tried).err = Empty /\ UsableCandidates(Last(tried).doc) # {}) =>
        response.body.success

\* C34: every success = true result returned by scrapeContentEnhanced,
\* scrapeWithAssemblyAI or scrapeWithCustomAPI has a content of at least 50
\* characters after trimming
C34_EnhancedResultInvariant ==
    (EntryDone /\ caller.out.success) => GoodSuccess(caller.out)

\* C35: one call of scrapeContentEnhanced runs scrapeContent at most once,
\* and so sends at most 3 requests to /api/scrape; every call of scrapeContent
\* that has returned sent one request at least
C35_OneEnvelopePerCall ==
    (caller.fn = "scrapeContentEnhanced" /\ caller.calls # <<>>) =>
        /\ Len(caller.calls) <= 1
        /\ (Len(caller.calls) - 1) + requests <= maxRetries

\* C36: once the transcription service has reported the job completed, in the
\* answer to the submit request or in a poll, scrapeWithAssemblyAI does not
\* fall back to scrapeContent and returns the transcript of the service
C36_CompletedReturnsTranscript ==
    (caller.fn = "scrapeWithAssemblyAI" /\ caller.ended = "completed") =>
        /\ caller.calls = <<>>
        /\ EntryDone
        /\ \E text \in AssemblyTexts : caller.out = AssemblyResult(text)

\* the polling loop is left otherwise than by a completed job
PollingGivenUp ==
    /\ caller.at = "a_poll"
    /\ caller'.at # "a_poll"
    /\ caller'.ended # "completed"

\* C37: scrapeWithAssemblyAI polls the job at most 30 times; when the polling
\* stops without a completed job (an error status, a failed poll, or 30 polls
\* without completion) the call runs scrapeContent(url, 'youtube'), and it
\* ends by returning a result
C37_PollingTerminates ==
    /\ [](caller.polls < maxAttempts)
    /\ [][PollingGivenUp =>
            /\ caller'.at = "a_scrape"
            /\ caller'.calls = Append(caller.calls, "youtube")
            /\ type' = "youtube"
            /\ pc' = "loop"]_vars
    /\ [](caller.at = "a_scrape" /\ caller.fn = "scrapeWithAssemblyAI" /\ pc = "returned"
            => result # NoResult)
    /\ (caller.at = "a_poll") ~> (caller.at = "done" /\ caller.out # NoResult)

\* the thirtieth poll found the job still processing, and the call returned
\* what scrapeContent returned for the type youtube
C37_Witness ==
    /\ caller.fn = "scrapeWithAssemblyAI"
    /\ caller.ended = "timeout"
    /\ caller.calls = <<"youtube">>
    /\ EntryDone
    /\ caller.out = result

\* C40: in the AI chat window at most one request to /api/generate-script is
\* in flight at any time, and isLoading is true in exactly the states where
\* one is, for every interleaving of submissions and answers
C40_OneRequestInFlight ==
    /\ Len(chat.inFlight) <= 1
    /\ chat.isLoading <=> chat.inFlight # <<>>

====
